---- MODULE Spec2Model ----
(***************************************************************************)
(* Tile-grid map tooling of TheGallicWars: the tile record model (parse /  *)
(* write of the tagged tile text), hex geometry, region extraction, the    *)
(* terrain freeze and the scenario compositor (write_tile / write_xml).    *)
(*                                                                         *)
(* Python values are modelled as follows.  An Optional value is a sequence *)
(* of length 0 (None) or 1 (the value).  A child tag of a tile block of    *)
(* the text is [name, kind, text]: kind "selfclosing" is <Tag />, kind     *)
(* "element" is <Tag>text</Tag>.  A parsed tile field is a record          *)
(* [tag, val] whose val is an Optional string.  An output line group of    *)
(* write_tile is an element [tag, val, attrs]: attrs is the sequence of    *)
(* XML attributes (name, value) of the element or of its <Team> child.     *)
(***************************************************************************)
EXTENDS Integers, Sequences, FiniteSets, TLC

VARIABLES pc, op, width, height, cities, units, tile_id, boundary, src, out,
          doc, tiles, emitted, geo, file, args, text

vars == <<pc, op, width, height, cities, units, tile_id, boundary, src, out,
          doc, tiles, emitted, geo, file, args, text>>

-----------------------------------------------------------------------------
(* Python helpers *)

None == <<>>

Some(v) == <<v>>

Field(t, v) == [tag |-> t, val |-> v]

Flag(t) == [tag |-> t, val |-> None, attrs |-> <<>>]

Valued(t, v) == [tag |-> t, val |-> Some(v), attrs |-> <<>>]

Block(t, as, v) == [tag |-> t, val |-> Some(v), attrs |-> as]

Line(f) == [tag |-> f.tag, val |-> f.val, attrs |-> <<>>]

Abs(n) == IF n < 0 THEN -n ELSE n

Max2(a, b) == IF a >= b THEN a ELSE b

MaxOf(S) == CHOOSE m \in S : \A n \in S : n <= m

RECURSIVE Concat(_)
Concat(ss) == IF ss = <<>> THEN <<>> ELSE Head(ss) \o Concat(Tail(ss))

HasTag(fields, t) == \E i \in DOMAIN fields : fields[i].tag = t

CountTag(lines, t) == Cardinality({i \in DOMAIN lines : lines[i].tag = t})

IndexOf(lines, t) == CHOOSE i \in DOMAIN lines : lines[i].tag = t

-----------------------------------------------------------------------------
(* Program constants *)

BOUNDARY_WIDTH == 2

NARBO_X == 6

NARBO_Y == 4

GENAVA_X == 11

GENAVA_Y == 12

BIBRACTE_X == 9

BIBRACTE_Y == 13

VESONTIO_X == 14

VESONTIO_Y == 15

DEFAULT_RADIUS == 2

-----------------------------------------------------------------------------
(* Hex geometry *)

(* Variant: the even rows are the ones shifted right *)
offset_to_cube_EvenRowRight(x, y) ==
    LET q == x - ((y + (y % 2)) \div 2)
        r == y
    IN  <<q, r, (0 - q) - r>>

offset_to_cube(x, y) ==
    LET q == x - ((y - (y % 2)) \div 2)
        r == y
    IN  <<q, r, (0 - q) - r>>

(* Variant: the largest signed difference, without abs() *)
hex_distance_Signed(x1, y1, x2, y2) ==
    LET a == offset_to_cube(x1, y1)
        b == offset_to_cube(x2, y2)
    IN  Max2(a[1] - b[1], Max2(a[2] - b[2], a[3] - b[3]))

hex_distance(x1, y1, x2, y2) ==
    LET a == offset_to_cube(x1, y1)
        b == offset_to_cube(x2, y2)
    IN  Max2(Abs(a[1] - b[1]), Max2(Abs(a[2] - b[2]), Abs(a[3] - b[3])))

-----------------------------------------------------------------------------
(* City definitions and unit placements *)

CityDef(id, w, p, cx, cy, extra, radius, xmin, xmax, ymin, ymax) ==
    [city_id |-> id, tile_id |-> cy * w + cx, player |-> p, x |-> cx, y |-> cy,
     extra_territory |-> extra, territory_radius |-> radius,
     territory_x_min |-> xmin, territory_x_max |-> xmax,
     territory_y_min |-> ymin, territory_y_max |-> ymax]

make_cities(w) ==
    << CityDef(0, w, 0, NARBO_X, NARBO_Y,
               Some(<< <<8, 5>>, <<9, 5>>, <<10, 5>>, <<11, 5>>, <<9, 6>>, <<10, 6>> >>),
               DEFAULT_RADIUS, None, None, None, None),
       CityDef(1, w, 0, GENAVA_X, GENAVA_Y, None,
               DEFAULT_RADIUS, Some(10), None, None, Some(12)),
       CityDef(2, w, -1, BIBRACTE_X, BIBRACTE_Y, None,
               DEFAULT_RADIUS, None, None, None, None),
       CityDef(3, w, -1, VESONTIO_X, VESONTIO_Y, None,
               DEFAULT_RADIUS, None, None, None, None) >>

STARTING_UNITS ==
    << <<5, 4, "UNIT_HASTATUS">>, <<6, 3, "UNIT_BALEARIC_SLINGER">>,
       <<6, 5, "UNIT_NOMAD_SKIRMISHER_2">>, <<5, 5, "UNIT_WORKER">> >>

NUM_UNITS == Len(STARTING_UNITS)

(* The counters generate_preamble writes in the Game block *)
generate_preamble(cs) == [NextUnitID |-> NUM_UNITS, NextCityID |-> Len(cs)]

-----------------------------------------------------------------------------
(* Tile record model: the field extraction shared by parse_frozen_terrain,  *)
(* parse_terrain and parse_tiles.  A tile block of the text is the sequence *)
(* of its child tags in textual order; the parser collects the self-closing *)
(* tags in a first pass and the valued tags in a second pass.               *)

SelfClosing(t) == [name |-> t, kind |-> "selfclosing", text |-> ""]

Element(t, v) == [name |-> t, kind |-> "element", text |-> v]

ParseFields(entries) ==
    LET flags == SelectSeq(entries, LAMBDA e : e.kind = "selfclosing")
        valued == SelectSeq(entries, LAMBDA e : e.kind = "element")
    IN  [i \in DOMAIN flags |-> Field(flags[i].name, None)]
        \o [i \in DOMAIN valued |-> Field(valued[i].name, Some(valued[i].text))]

(* The tag a field is written as: self-closing for None, valued otherwise *)
WriteField(f) ==
    IF f.val = None THEN SelfClosing(f.tag) ELSE Element(f.tag, f.val[1])

-----------------------------------------------------------------------------
(* generate_scenario.py: the scenario compositor *)

build_city_tile_map(cs, tid) ==
    LET idx == {i \in DOMAIN cs : cs[i].tile_id = tid}
    IN  IF idx = {} THEN None ELSE Some(cs[MaxOf(idx)])

(* Variant: the units are numbered from 1 *)
build_unit_map_FromOne(us, w, tid) ==
    LET numbered == [i \in DOMAIN us |->
                        [unit_id |-> i, unit_type |-> us[i][3],
                         tile |-> us[i][2] * w + us[i][1]]]
    IN  SelectSeq(numbered, LAMBDA u : u.tile = tid)

build_unit_map(us, w, tid) ==
    LET numbered == [i \in DOMAIN us |->
                        [unit_id |-> i - 1, unit_type |-> us[i][3],
                         tile |-> us[i][2] * w + us[i][1]]]
    IN  SelectSeq(numbered, LAMBDA u : u.tile = tid)

InExtra(c, x, y) ==
    /\ c.extra_territory # None
    /\ \E i \in DOMAIN c.extra_territory[1] : c.extra_territory[1][i] = <<x, y>>

ClampViolated(c, x, y) ==
    \/ (c.territory_x_min # None /\ x < c.territory_x_min[1])
    \/ (c.territory_x_max # None /\ x > c.territory_x_max[1])
    \/ (c.territory_y_min # None /\ y < c.territory_y_min[1])
    \/ (c.territory_y_max # None /\ y > c.territory_y_max[1])

(* Variant: the clamps are applied to the extra tiles too *)
GenCityClaims_ClampsOnExtras(c, is_boundary, x, y) ==
    /\ c.player >= 0
    /\ ~is_boundary
    /\ LET in_extra == InExtra(c, x, y)
           dist == hex_distance(x, y, c.x, c.y)
       IN  /\ (in_extra \/ dist <= c.territory_radius)
           /\ ~ClampViolated(c, x, y)

(* One iteration of the territory loop: TRUE when the city sets *)
(* city_territory_id and breaks, FALSE when the loop goes on.   *)
GenCityClaims(c, is_boundary, x, y) ==
    /\ c.player >= 0
    /\ ~is_boundary
    /\ LET in_extra == InExtra(c, x, y)
           dist == hex_distance(x, y, c.x, c.y)
       IN  /\ (in_extra \/ dist <= c.territory_radius)
           /\ (in_extra \/ ~ClampViolated(c, x, y))

RECURSIVE GenTerritoryLoop(_, _, _, _, _)
GenTerritoryLoop(cs, i, is_boundary, x, y) ==
    IF i > Len(cs) THEN None
    ELSE IF GenCityClaims(cs[i], is_boundary, x, y) THEN Some(cs[i].city_id)
    ELSE GenTerritoryLoop(cs, i + 1, is_boundary, x, y)

(* Variant: no break, the last matching city wins *)
GenCityTerritoryId_LastWins(cs, is_boundary, x, y) ==
    LET idx == {i \in DOMAIN cs : GenCityClaims(cs[i], is_boundary, x, y)}
    IN  IF idx = {} THEN None ELSE Some(cs[MaxOf(idx)].city_id)

GenCityTerritoryId(cs, is_boundary, x, y) ==
    GenTerritoryLoop(cs, 1, is_boundary, x, y)

(* Variant: a tribe-owned city reveals its tile as well *)
IsRevealed_AnyCity(has_units, city) ==
    has_units \/ city # None

IsRevealed(has_units, city) ==
    has_units \/ (city # None /\ city[1].player >= 0)

GenFieldLine(city, f) ==
    IF city # None /\ f.tag = "CitySite" THEN Valued("CitySite", "USED")
    ELSE IF city # None /\ f.tag = "Terrain" THEN Valued("Terrain", "TERRAIN_URBAN")
    ELSE Line(f)

GenFieldLines(city, fields) ==
    [i \in DOMAIN fields |-> GenFieldLine(city, fields[i])]

(* Variant: the terrain-layer value is kept for RevealedTerrain *)
GenTerrainValue_FromTerrainLayer(city, fields) ==
    LET idx == {i \in DOMAIN fields : fields[i].tag = "Terrain"}
    IN  IF idx = {} THEN None ELSE fields[MaxOf(idx)].val

GenTerrainValue(city, fields) ==
    LET idx == {i \in DOMAIN fields : fields[i].tag = "Terrain"}
    IN  IF idx = {} THEN None
        ELSE IF city # None THEN Some("TERRAIN_URBAN")
        ELSE fields[MaxOf(idx)].val

(* Variant: CitySite is never added to a city tile that lacks it *)
AppendedCitySite_Never(city, fields) == <<>>

AppendedCitySite(city, fields) ==
    IF city # None /\ ~HasTag(fields, "CitySite")
    THEN << Valued("CitySite", "USED") >> ELSE <<>>

Truthy(v) == v # None /\ v[1] # ""

(* Variant: a boundary tile that hosts a unit is revealed as well *)
RevealedLines_OnBoundaryToo(is_revealed, is_boundary, city_territory_id, city) ==
    IF is_revealed
    THEN (IF city_territory_id # None
          THEN << Block("RevealedCityTerritory",
                        << <<"CityTerritory", ToString(city_territory_id[1])>> >>, "0") >>
          ELSE <<>>)
         \o << Block("Revealed", <<>>, "0") >>
         \o (IF city # None /\ city[1].player >= 0
             THEN << Block("RevealedCity", <<>>, "0") >>
             ELSE <<>>)
    ELSE <<>>

RevealedLines(is_revealed, is_boundary, city_territory_id, city) ==
    IF is_revealed /\ ~is_boundary
    THEN (IF city_territory_id # None
          THEN << Block("RevealedCityTerritory",
                        << <<"CityTerritory", ToString(city_territory_id[1])>> >>, "0") >>
          ELSE <<>>)
         \o << Block("Revealed", <<>>, "0") >>
         \o (IF city # None /\ city[1].player >= 0
             THEN << Block("RevealedCity", <<>>, "0") >>
             ELSE <<>>)
    ELSE <<>>

(* Variant: a city tile is also tagged with the territory of its own city *)
TerritoryLines_OwnCityToo(city_territory_id, city) ==
    (IF city_territory_id # None
     THEN << Valued("CityTerritory", ToString(city_territory_id[1])) >>
     ELSE <<>>)
    \o (IF city # None /\ city[1].player >= 0
        THEN << Valued("CityTerritory", ToString(city[1].city_id)),
                Valued("OrigUrbanOwner", ToString(city[1].player)) >>
        ELSE <<>>)

TerritoryLines(city_territory_id, city) ==
    (IF city_territory_id # None
     THEN << Valued("CityTerritory", ToString(city_territory_id[1])) >>
     ELSE <<>>)
    \o (IF city # None /\ city[1].player >= 0
        THEN << Valued("OrigUrbanOwner", ToString(city[1].player)) >>
        ELSE <<>>)

write_unit(u) ==
    [tag |-> "Unit", val |-> None,
     attrs |-> << <<"ID", ToString(u.unit_id)>>, <<"Type", u.unit_type>>,
                  <<"Player", "0">>, <<"Tribe", "NONE">>,
                  <<"Seed", "58100000000000" \o ToString(100 + u.unit_id)>> >>]

UnitLines(unitsHere) == [i \in DOMAIN unitsHere |-> write_unit(unitsHere[i])]

(* Variant: RevealedTerrain is written on tiles that are not revealed too *)
TrailerLines_TerrainOfEveryTile(is_revealed, is_boundary, terrain_value) ==
    << Flag("Religion") >>
    \o (IF ~is_boundary /\ Truthy(terrain_value)
        THEN << Block("RevealedTerrain", << <<"Terrain", terrain_value[1]>> >>, "0") >>
        ELSE <<>>)
    \o << Flag("RevealedTurn") >>

TrailerLines(is_revealed, is_boundary, terrain_value) ==
    << Flag("Religion") >>
    \o (IF is_revealed /\ ~is_boundary /\ Truthy(terrain_value)
        THEN << Block("RevealedTerrain", << <<"Terrain", terrain_value[1]>> >>, "0") >>
        ELSE <<>>)
    \o << Flag("RevealedTurn") >>

GenWriteTile(tid, fields, is_boundary, w, cs, us) ==
    LET new_x == tid % w
        new_y == tid \div w
        city == build_city_tile_map(cs, tid)
        unitsHere == build_unit_map(us, w, tid)
        is_revealed == IsRevealed(unitsHere # <<>>, city)
        city_territory_id == GenCityTerritoryId(cs, is_boundary, new_x, new_y)
    IN  (IF is_boundary THEN << Flag("Boundary") >> ELSE <<>>)
        \o GenFieldLines(city, fields)
        \o AppendedCitySite(city, fields)
        \o RevealedLines(is_revealed, is_boundary, city_territory_id, city)
        \o TerritoryLines(city_territory_id, city)
        \o UnitLines(unitsHere)
        \o TrailerLines(is_revealed, is_boundary, GenTerrainValue(city, fields))

GenIsBoundary(tid, w, h) ==
    LET new_x == tid % w
        new_y == tid \div w
    IN  \/ new_x < BOUNDARY_WIDTH
        \/ new_x >= w - BOUNDARY_WIDTH
        \/ new_y < BOUNDARY_WIDTH
        \/ new_y >= h - BOUNDARY_WIDTH

-----------------------------------------------------------------------------
(* extract_map.py and freeze_terrain.py: extraction parameters and overlays *)

SOURCE_WIDTH == 127

SRC_X_MIN == 20

SRC_X_MAX == 42

SRC_Y_MIN == 58

SRC_Y_MAX == 86

NEW_WIDTH == SRC_X_MAX - SRC_X_MIN + 1

NEW_HEIGHT == SRC_Y_MAX - SRC_Y_MIN + 1

REMOVE_CITY_SITES ==
    { 10 * NEW_WIDTH + 10, 18 * NEW_WIDTH + 9, 7 * NEW_WIDTH + 17,
      17 * NEW_WIDTH + 20, 23 * NEW_WIDTH + 14, 25 * NEW_WIDTH + 4,
      16 * NEW_WIDTH + 3 }

(* The CityDef of extract_map.py has no extra_territory and no radius   *)
(* field: its territory loop uses the literal distance 2 and no extras. *)
CITIES ==
    << CityDef(0, NEW_WIDTH, 0, NARBO_X, NARBO_Y, None, 2, None, None, None, None),
       CityDef(1, NEW_WIDTH, 0, GENAVA_X, GENAVA_Y, None, 2,
               Some(10), None, None, Some(12)),
       CityDef(2, NEW_WIDTH, -1, BIBRACTE_X, BIBRACTE_Y, None, 2,
               None, None, None, None),
       CityDef(3, NEW_WIDTH, -1, VESONTIO_X, VESONTIO_Y, None, 2,
               None, None, None, None) >>

PLACED_IMPROVEMENTS ==
    << <<7, 5, "IMPROVEMENT_GARRISON_1">>, <<7, 2, "IMPROVEMENT_NETS">>,
       <<7, 4, "IMPROVEMENT_NETS">>, <<5, 5, "IMPROVEMENT_MINE">>,
       <<6, 6, "IMPROVEMENT_MINE">>, <<7, 6, "IMPROVEMENT_MINE">>,
       <<4, 5, "IMPROVEMENT_QUARRY">>, <<6, 3, "IMPROVEMENT_QUARRY">>,
       <<5, 2, "IMPROVEMENT_QUARRY">>, <<10, 12, "IMPROVEMENT_FARM">>,
       <<11, 11, "IMPROVEMENT_FARM">>, <<12, 11, "IMPROVEMENT_FARM">>,
       <<10, 10, "IMPROVEMENT_FARM">>, <<11, 10, "IMPROVEMENT_FARM">>,
       <<12, 10, "IMPROVEMENT_FARM">> >>

EXT_DROP_FIELDS == {"Metadata", "TribeSite"}

(* Variant: the shorter drop-list of extract_map.py *)
FREEZE_DROP_FIELDS_AsExtractMap == {"Metadata", "TribeSite"}

FREEZE_DROP_FIELDS == {"Metadata", "TribeSite", "NationSite", "Boundary"}

(* Variant: the region starts one source row lower, on an odd row *)
source_coord_OddRowOffset(new_x, new_y) == <<SRC_X_MIN + new_x, SRC_Y_MIN + 1 + new_y>>

(* src_x, src_y of a destination coordinate *)
source_coord(new_x, new_y) == <<SRC_X_MIN + new_x, SRC_Y_MIN + new_y>>

build_improvement_map(tid) ==
    LET idx == {i \in DOMAIN PLACED_IMPROVEMENTS :
                   PLACED_IMPROVEMENTS[i][2] * NEW_WIDTH + PLACED_IMPROVEMENTS[i][1] = tid}
    IN  IF idx = {} THEN None ELSE Some(PLACED_IMPROVEMENTS[MaxOf(idx)][3])

(* Variant: a missing source tile yields an empty record *)
SourceFields_EmptyForHole(tile) ==
    IF tile = None THEN <<>> ELSE tile[1]

(* tiles.get(src_id) with the open-water default for a missing source tile *)
SourceFields(tile) ==
    IF tile = None
    THEN << Field("Terrain", Some("TERRAIN_WATER")), Field("Height", Some("HEIGHT_OCEAN")) >>
    ELSE tile[1]

(* Variant: only the outermost column on the right is boundary *)
ExtIsBoundary_ThinRightEdge(new_x, new_y) ==
    \/ new_x <= 1
    \/ new_x >= NEW_WIDTH - 1
    \/ new_y <= 1
    \/ new_y >= NEW_HEIGHT - 2

ExtIsBoundary(new_x, new_y) ==
    \/ new_x <= 1
    \/ new_x >= NEW_WIDTH - 2
    \/ new_y <= 1
    \/ new_y >= NEW_HEIGHT - 2

-----------------------------------------------------------------------------
(* extract_map.py: write_tile *)

ExtCityClaims(c, is_boundary, x, y) ==
    /\ c.player >= 0
    /\ ~is_boundary
    /\ hex_distance(x, y, c.x, c.y) <= 2
    /\ ~ClampViolated(c, x, y)

RECURSIVE ExtTerritoryLoop(_, _, _, _, _)
ExtTerritoryLoop(cs, i, is_boundary, x, y) ==
    IF i > Len(cs) THEN None
    ELSE IF ExtCityClaims(cs[i], is_boundary, x, y) THEN Some(cs[i].city_id)
    ELSE ExtTerritoryLoop(cs, i + 1, is_boundary, x, y)

ExtCityTerritoryId(cs, is_boundary, x, y) ==
    ExtTerritoryLoop(cs, 1, is_boundary, x, y)

(* Variant: a legacy city-site improvement with no overlay queued is kept *)
ExtFieldLine_KeepsLegacyImprovement(city, new_id, placed_improvement, f) ==
    IF f.tag \in EXT_DROP_FIELDS THEN <<>>
    ELSE IF f.tag = "Boundary" THEN <<>>
    ELSE IF city # None /\ f.tag = "CitySite" THEN << Valued("CitySite", "USED") >>
    ELSE IF city # None /\ f.tag = "Terrain" THEN << Valued("Terrain", "TERRAIN_URBAN") >>
    ELSE IF new_id \in REMOVE_CITY_SITES /\ f.tag = "CitySite" THEN <<>>
    ELSE IF new_id \in REMOVE_CITY_SITES /\ f.tag = "Improvement"
            /\ f.val = Some("IMPROVEMENT_CITY_SITE")
         THEN (IF placed_improvement # None
               THEN << Valued("Improvement", placed_improvement[1]) >>
               ELSE << Valued("Improvement", "IMPROVEMENT_CITY_SITE") >>)
    ELSE IF new_id \in REMOVE_CITY_SITES /\ f.tag = "ElementName" THEN <<>>
    ELSE IF new_id \in REMOVE_CITY_SITES /\ f.tag = "Terrain"
            /\ f.val = Some("TERRAIN_URBAN")
         THEN << Valued("Terrain", "TERRAIN_LUSH") >>
    ELSE IF f.tag = "Improvement" /\ placed_improvement # None
         THEN << Valued("Improvement", placed_improvement[1]) >>
    ELSE IF f.tag = "NationSite" THEN <<>>
    ELSE << Line(f) >>

(* The lines one source field contributes: none when it is dropped *)
ExtFieldLine(city, new_id, placed_improvement, f) ==
    IF f.tag \in EXT_DROP_FIELDS THEN <<>>
    ELSE IF f.tag = "Boundary" THEN <<>>
    ELSE IF city # None /\ f.tag = "CitySite" THEN << Valued("CitySite", "USED") >>
    ELSE IF city # None /\ f.tag = "Terrain" THEN << Valued("Terrain", "TERRAIN_URBAN") >>
    ELSE IF new_id \in REMOVE_CITY_SITES /\ f.tag = "CitySite" THEN <<>>
    ELSE IF new_id \in REMOVE_CITY_SITES /\ f.tag = "Improvement"
            /\ f.val = Some("IMPROVEMENT_CITY_SITE")
         THEN (IF placed_improvement # None
               THEN << Valued("Improvement", placed_improvement[1]) >>
               ELSE <<>>)
    ELSE IF new_id \in REMOVE_CITY_SITES /\ f.tag = "ElementName" THEN <<>>
    ELSE IF new_id \in REMOVE_CITY_SITES /\ f.tag = "Terrain"
            /\ f.val = Some("TERRAIN_URBAN")
         THEN << Valued("Terrain", "TERRAIN_LUSH") >>
    ELSE IF f.tag = "Improvement" /\ placed_improvement # None
         THEN << Valued("Improvement", placed_improvement[1]) >>
    ELSE IF f.tag = "NationSite" THEN <<>>
    ELSE << Line(f) >>

ExtFieldLines(city, new_id, placed_improvement, fields) ==
    Concat([i \in DOMAIN fields |->
               ExtFieldLine(city, new_id, placed_improvement, fields[i])])

ExtTerrainValue(city, new_id, fields) ==
    LET idx == {i \in DOMAIN fields : fields[i].tag = "Terrain"}
        last == fields[MaxOf(idx)]
    IN  IF idx = {} THEN None
        ELSE IF city # None THEN Some("TERRAIN_URBAN")
        ELSE IF new_id \in REMOVE_CITY_SITES /\ last.val = Some("TERRAIN_URBAN")
             THEN Some("TERRAIN_LUSH")
        ELSE last.val

ExtAppendedImprovement(placed_improvement, fields) ==
    IF placed_improvement # None /\ ~HasTag(fields, "Improvement")
    THEN << Valued("Improvement", placed_improvement[1]) >> ELSE <<>>

ExtWriteTile(new_id, fields, is_boundary, us, city_map) ==
    LET new_x == new_id % NEW_WIDTH
        new_y == new_id \div NEW_WIDTH
        city == build_city_tile_map(city_map, new_id)
        unitsHere == build_unit_map(us, NEW_WIDTH, new_id)
        placed_improvement == build_improvement_map(new_id)
        is_revealed == IsRevealed(unitsHere # <<>>, city)
        city_territory_id == ExtCityTerritoryId(CITIES, is_boundary, new_x, new_y)
    IN  (IF is_boundary THEN << Flag("Boundary") >> ELSE <<>>)
        \o ExtFieldLines(city, new_id, placed_improvement, fields)
        \o AppendedCitySite(city, fields)
        \o ExtAppendedImprovement(placed_improvement, fields)
        \o RevealedLines(is_revealed, is_boundary, city_territory_id, city)
        \o TerritoryLines(city_territory_id, city)
        \o UnitLines(unitsHere)
        \o TrailerLines(is_revealed, is_boundary, ExtTerrainValue(city, new_id, fields))

-----------------------------------------------------------------------------
(* freeze_terrain.py: the per-tile body of extract_and_transform.  The state *)
(* of the field loop is the pair (out_fields, placed_imp): the overlay is    *)
(* set to None once it has been written.                                     *)

(* Variant: an Improvement of the source is kept, the overlay is dropped *)
FreezeStep_KeepsSourceImprovement(st, f, is_removed_site) ==
    IF f.tag \in FREEZE_DROP_FIELDS THEN st
    ELSE IF is_removed_site /\ f.tag = "CitySite" THEN st
    ELSE IF is_removed_site /\ f.tag = "Improvement"
            /\ f.val = Some("IMPROVEMENT_CITY_SITE")
         THEN (IF st.placed_imp # None
               THEN [out_fields |-> Append(st.out_fields,
                                           Field("Improvement", st.placed_imp)),
                     placed_imp |-> None]
               ELSE st)
    ELSE IF is_removed_site /\ f.tag = "ElementName" THEN st
    ELSE IF is_removed_site /\ f.tag = "Terrain" /\ f.val = Some("TERRAIN_URBAN")
         THEN [st EXCEPT !.out_fields = Append(@, Field("Terrain", Some("TERRAIN_LUSH")))]
    ELSE IF f.tag = "Improvement" /\ st.placed_imp # None
         THEN [out_fields |-> Append(st.out_fields, f), placed_imp |-> None]
    ELSE [st EXCEPT !.out_fields = Append(@, f)]

FreezeStep(st, f, is_removed_site) ==
    IF f.tag \in FREEZE_DROP_FIELDS THEN st
    ELSE IF is_removed_site /\ f.tag = "CitySite" THEN st
    ELSE IF is_removed_site /\ f.tag = "Improvement"
            /\ f.val = Some("IMPROVEMENT_CITY_SITE")
         THEN (IF st.placed_imp # None
               THEN [out_fields |-> Append(st.out_fields,
                                           Field("Improvement", st.placed_imp)),
                     placed_imp |-> None]
               ELSE st)
    ELSE IF is_removed_site /\ f.tag = "ElementName" THEN st
    ELSE IF is_removed_site /\ f.tag = "Terrain" /\ f.val = Some("TERRAIN_URBAN")
         THEN [st EXCEPT !.out_fields = Append(@, Field("Terrain", Some("TERRAIN_LUSH")))]
    ELSE IF f.tag = "Improvement" /\ st.placed_imp # None
         THEN [out_fields |-> Append(st.out_fields, Field("Improvement", st.placed_imp)),
               placed_imp |-> None]
    ELSE [st EXCEPT !.out_fields = Append(@, f)]

RECURSIVE FreezeLoop(_, _, _, _)
FreezeLoop(st, fields, i, is_removed_site) ==
    IF i > Len(fields) THEN st
    ELSE FreezeLoop(FreezeStep(st, fields[i], is_removed_site), fields, i + 1,
                    is_removed_site)

FreezeTransform(new_id, fields) ==
    LET placed_imp == build_improvement_map(new_id)
        is_removed_site == new_id \in REMOVE_CITY_SITES
        st == FreezeLoop([out_fields |-> <<>>, placed_imp |-> placed_imp],
                         fields, 1, is_removed_site)
    IN  IF st.placed_imp # None /\ ~HasTag(fields, "Improvement")
        THEN Append(st.out_fields, Field("Improvement", st.placed_imp))
        ELSE st.out_fields

-----------------------------------------------------------------------------
(* insert_rows.py *)

get_field(fields, tag) ==
    LET idx == {i \in DOMAIN fields : fields[i].tag = tag}
    IN  IF idx = {} THEN None
        ELSE fields[CHOOSE i \in idx : \A j \in idx : i <= j].val

(* row_data.get(y, {}).get(x): the fields of the last tile at (x, y), if any *)
row_data(width_, ts, x, y) ==
    LET idx == {i \in DOMAIN ts : ts[i].tile_id \div width_ = y
                                  /\ ts[i].tile_id % width_ = x}
    IN  IF idx = {} THEN None ELSE Some(ts[MaxOf(idx)].fields)

OrDefault(opt, default) == IF opt = None THEN default ELSE opt[1]

WaterFields ==
    << Field("Terrain", Some("TERRAIN_WATER")), Field("Height", Some("HEIGHT_OCEAN")) >>

(* value or default: None and the empty string both give the default *)
OrElse(v, default) == IF Truthy(v) THEN v[1] ELSE default

RangeLen(n) == IF n < 0 THEN 0 ELSE n

insert_rows(width_, height_, ts, after_row, count) ==
    LET template(x) ==
            IF after_row >= 0
            THEN OrDefault(row_data(width_, ts, x, after_row), <<>>)
            ELSE <<>>
        unchanged ==
            [k \in 1..(RangeLen(after_row + 1) * width_) |->
                LET y == (k - 1) \div width_
                    x == (k - 1) % width_
                IN  [tile_id |-> y * width_ + x,
                     fields |-> OrDefault(row_data(width_, ts, x, y), WaterFields)]]
        inserted ==
            [k \in 1..(RangeLen(count) * width_) |->
                LET new_y == after_row + 1 + ((k - 1) \div width_)
                    x == (k - 1) % width_
                IN  [tile_id |-> new_y * width_ + x,
                     fields |-> << Field("Terrain",
                                         Some(OrElse(get_field(template(x), "Terrain"),
                                                     "TERRAIN_LUSH"))),
                                   Field("Height",
                                         Some(OrElse(get_field(template(x), "Height"),
                                                     "HEIGHT_FLAT"))) >>]]
        shifted ==
            [k \in 1..(RangeLen(height_ - (after_row + 1)) * width_) |->
                LET y == after_row + 1 + ((k - 1) \div width_)
                    x == (k - 1) % width_
                IN  [tile_id |-> (y + count) * width_ + x,
                     fields |-> OrDefault(row_data(width_, ts, x, y), WaterFields)]]
    IN  unchanged \o inserted \o shifted

(* Variant: an odd count is let through *)
args_rejected_OddAllowed(after, count, height_) ==
    \/ after < -1 \/ after >= height_
    \/ count < 1

(* The three checks of main: TRUE when main prints an error and returns *)
args_rejected(after, count, height_) ==
    \/ after < -1 \/ after >= height_
    \/ count < 1
    \/ count % 2 # 0

-----------------------------------------------------------------------------
(* import_editor_terrain.py: grid constants and the boundary test *)

MAP_WIDTH == 37

MAP_HEIGHT == 41

BOUNDARY_X_MIN == 2

BOUNDARY_X_MAX == 35

BOUNDARY_Y_MIN == 2

BOUNDARY_Y_MAX == 39

tile_id_to_xy(tid) == <<tid % MAP_WIDTH, tid \div MAP_WIDTH>>

is_boundary(tid) ==
    LET xy == tile_id_to_xy(tid)
    IN  \/ xy[1] < BOUNDARY_X_MIN
        \/ xy[1] >= BOUNDARY_X_MAX
        \/ xy[2] < BOUNDARY_Y_MIN
        \/ xy[2] >= BOUNDARY_Y_MAX

RIVER_FIELDS == << "RiverW", "RiverSW", "RiverSE" >>

FIELD_ORDER ==
    << "Terrain", "Height", "Vegetation", "Resource", "Road", "RiverW", "RiverSW",
       "RiverSE", "CitySite", "Improvement", "ElementName" >>

(* A Python dict of tile fields is the sequence of its items [tag, val] in *)
(* insertion order, every tag once.                                        *)
DictHas(d, k) == \E i \in DOMAIN d : d[i].tag = k

DictVal(d, k) == d[CHOOSE i \in DOMAIN d : d[i].tag = k].val

(* d.get(k, default) and d.get(k) *)
DictGet(d, k, default) == IF DictHas(d, k) THEN DictVal(d, k) ELSE default

(* d[k] = v *)
DictSet(d, k, v) ==
    IF DictHas(d, k)
    THEN [i \in DOMAIN d |-> IF d[i].tag = k THEN Field(k, v) ELSE d[i]]
    ELSE Append(d, Field(k, v))

(* del d[k] *)
DictDel(d, k) == SelectSeq(d, LAMBDA f : f.tag # k)

RECURSIVE DictFrom(_, _, _)
DictFrom(d, fs, i) ==
    IF i > Len(fs) THEN d
    ELSE DictFrom(DictSet(d, fs[i].tag, fs[i].val), fs, i + 1)

(* Self-closing tags except Boundary, then the valued tags with a value *)
parse_tile_fields(entries) ==
    LET flags == SelectSeq(entries, LAMBDA e : e.kind = "selfclosing"
                                               /\ e.name # "Boundary")
        valued == SelectSeq(entries, LAMBDA e : e.kind = "element" /\ e.text # ""
                                                /\ e.name # "ID")
    IN  DictFrom(<<>>,
                 [i \in DOMAIN flags |-> Field(flags[i].name, None)]
                 \o [i \in DOMAIN valued |-> Field(valued[i].name, Some(valued[i].text))],
                 1)

(* parse_tiles of import_editor_terrain.py: the dict items [tile_id, fields] *)
(* in insertion order; a later block with the same ID replaces the fields.  *)
import_parse_tiles(blocks) ==
    LET first == SelectSeq([i \in DOMAIN blocks |-> i],
                           LAMBDA i : \A j \in 1..(i - 1) : blocks[j].id # blocks[i].id)
        last(id) == MaxOf({i \in DOMAIN blocks : blocks[i].id = id})
    IN  [k \in DOMAIN first |->
            [tile_id |-> blocks[first[k]].id,
             fields |-> parse_tile_fields(blocks[last(blocks[first[k]].id)].entries)]]

TilesHave(ts, id) == \E i \in DOMAIN ts : ts[i].tile_id = id

TilesGet(ts, id) == ts[CHOOSE i \in DOMAIN ts : ts[i].tile_id = id].fields

(* The state of the loop body of main is [base, changes]: the fields of the *)
(* base tile and the number of changes recorded so far.                     *)
MergeHeight(st, editor) ==
    LET base_height == DictGet(st.base, "Height", Some(""))
        editor_height == DictGet(editor, "Height", Some(""))
    IN  IF base_height # editor_height /\ Truthy(editor_height)
        THEN [base |-> DictSet(st.base, "Height", editor_height),
              changes |-> st.changes + 1]
        ELSE st

MergeTerrain(st, editor) ==
    LET base_terrain == DictGet(st.base, "Terrain", Some(""))
        editor_terrain == DictGet(editor, "Terrain", Some(""))
    IN  IF base_terrain # editor_terrain /\ editor_terrain = Some("TERRAIN_TUNDRA")
        THEN [base |-> DictSet(st.base, "Terrain", editor_terrain),
              changes |-> st.changes + 1]
        ELSE st

MergeRiver(st, editor, rf) ==
    LET base_val == DictGet(st.base, rf, None)
        editor_val == DictGet(editor, rf, None)
    IN  IF base_val = None /\ editor_val # None
        THEN [base |-> DictSet(st.base, rf, editor_val), changes |-> st.changes + 1]
        ELSE IF base_val # None /\ editor_val = None
        THEN [base |-> DictDel(st.base, rf), changes |-> st.changes + 1]
        ELSE IF base_val # None /\ editor_val # None /\ base_val # editor_val
        THEN [base |-> DictSet(st.base, rf, editor_val), changes |-> st.changes + 1]
        ELSE st

MergeTile(base, editor) ==
    LET s0 == [base |-> base, changes |-> 0]
        s1 == MergeHeight(s0, editor)
        s2 == MergeTerrain(s1, editor)
        s3 == MergeRiver(s2, editor, RIVER_FIELDS[1])
        s4 == MergeRiver(s3, editor, RIVER_FIELDS[2])
    IN  MergeRiver(s4, editor, RIVER_FIELDS[3])

(* sorted(base_tiles.keys()) *)
RECURSIVE SortedIds(_)
SortedIds(ids) ==
    IF ids = {} THEN <<>>
    ELSE LET m == CHOOSE a \in ids : \A b \in ids : a <= b
         IN  <<m>> \o SortedIds(ids \ {m})

TileIds(ts) == {ts[i].tile_id : i \in DOMAIN ts}

(* A base tile the loop looks up in editor_tiles without finding it *)
MergeKeyError(base_tiles, editor_tiles) ==
    \E i \in DOMAIN base_tiles :
        /\ ~is_boundary(base_tiles[i].tile_id)
        /\ ~TilesHave(editor_tiles, base_tiles[i].tile_id)

(* base_tiles after the loop: the dict keeps its insertion order *)
MergeTiles(base_tiles, editor_tiles) ==
    [i \in DOMAIN base_tiles |->
        IF is_boundary(base_tiles[i].tile_id) THEN base_tiles[i]
        ELSE [tile_id |-> base_tiles[i].tile_id,
              fields |-> MergeTile(base_tiles[i].fields,
                                   TilesGet(editor_tiles, base_tiles[i].tile_id)).base]]

RECURSIVE SumOf(_, _)
SumOf(f, i) == IF i > Len(f) THEN 0 ELSE f[i] + SumOf(f, i + 1)

MergeTotal(base_tiles, editor_tiles) ==
    SumOf([i \in DOMAIN base_tiles |->
              IF is_boundary(base_tiles[i].tile_id) THEN 0
              ELSE MergeTile(base_tiles[i].fields,
                             TilesGet(editor_tiles, base_tiles[i].tile_id)).changes], 1)

format_tile(tid, fields) ==
    LET ordered == SelectSeq(FIELD_ORDER, LAMBDA k : DictHas(fields, k))
        extra == SelectSeq(fields, LAMBDA f : \A j \in DOMAIN FIELD_ORDER :
                                                 FIELD_ORDER[j] # f.tag)
    IN  [id |-> tid,
         entries |-> [j \in DOMAIN ordered |->
                         WriteField(Field(ordered[j], DictVal(fields, ordered[j])))]
                     \o [j \in DOMAIN extra |-> WriteField(extra[j])]]

(* The tile blocks main writes: every base tile in ascending ID order *)
import_output(base_tiles) ==
    LET ids == SortedIds(TileIds(base_tiles))
    IN  [k \in DOMAIN ids |-> format_tile(ids[k], TilesGet(base_tiles, ids[k]))]

-----------------------------------------------------------------------------
(* generate_map.py: the NE and NW neighbours place_river computes *)

ne(prev_x, prev_y) ==
    IF prev_y % 2 = 0 THEN <<prev_x, prev_y + 1>> ELSE <<prev_x + 1, prev_y + 1>>

nw(prev_x, prev_y) ==
    IF prev_y % 2 = 0 THEN <<prev_x - 1, prev_y + 1>> ELSE <<prev_x, prev_y + 1>>

-----------------------------------------------------------------------------
(* Whole runs.  A document is [width, blocks]: width is the Optional value  *)
(* of the MapWidth attribute, blocks the tile blocks [id, entries] in the   *)
(* order of the text.                                                       *)

(* The text of a document is [width, chunks]: chunks are the <Tile ...>     *)
(* blocks as they stand in the text, [id, closed, entries].  id is None     *)
(* when the ID attribute is not a number (the header then does not match    *)
(* the pattern re.split cuts at), closed tells whether </Tile> follows the  *)
(* child tags.  The state of the scan is the list of the blocks cut so far  *)
(* and whether the text of the last one has met its first </Tile> yet.      *)
SplitStep(st, c) ==
    IF c.id # None
    THEN [blocks |-> Append(st.blocks, [id |-> c.id[1], entries |-> c.entries]),
          open |-> ~c.closed]
    ELSE IF st.open
    THEN [blocks |-> [st.blocks EXCEPT ![Len(st.blocks)].entries = @ \o c.entries],
          open |-> ~c.closed]
    ELSE st

RECURSIVE SplitLoop(_, _, _)
SplitLoop(st, chunks, i) ==
    IF i > Len(chunks) THEN st
    ELSE SplitLoop(SplitStep(st, chunks[i]), chunks, i + 1)

(* re.split on the tile headers, then split('</Tile>')[0] on each piece *)
split_tiles(chunks) == SplitLoop([blocks |-> <<>>, open |-> FALSE], chunks, 1).blocks

parse_frozen_terrain(d) ==
    [width |-> d.width[1],
     height |-> Len(d.blocks) \div d.width[1],
     tiles |-> [i \in DOMAIN d.blocks |->
                   [tile_id |-> d.blocks[i].id,
                    fields |-> ParseFields(d.blocks[i].entries)]]]

parse_terrain(d) ==
    [width |-> d.width[1],
     height |-> Len(d.blocks) \div d.width[1],
     tiles |-> [i \in DOMAIN d.blocks |->
                   [tile_id |-> d.blocks[i].id,
                    fields |-> ParseFields(d.blocks[i].entries)]]]

write_terrain(ts) ==
    [i \in DOMAIN ts |->
        [id |-> ts[i].tile_id,
         entries |-> [j \in DOMAIN ts[i].fields |-> WriteField(ts[i].fields[j])]]]

write_xml(w, h, ts) ==
    [i \in DOMAIN ts |->
        [id |-> ts[i].tile_id,
         lines |-> GenWriteTile(ts[i].tile_id, ts[i].fields,
                                GenIsBoundary(ts[i].tile_id, w, h), w,
                                make_cities(w), STARTING_UNITS)]]

(* parse_tiles builds a dict keyed by tile ID: a later block replaces an *)
(* earlier one with the same ID.  This is tiles.get(src_id).             *)
parse_tiles(blocks, src_id) ==
    LET idx == {i \in DOMAIN blocks : blocks[i].id = src_id}
    IN  IF idx = {} THEN None ELSE Some(ParseFields(blocks[MaxOf(idx)].entries))

(* The items of that dict, in the order the keys were first inserted *)
parse_tiles_items(blocks) ==
    LET first == SelectSeq([i \in DOMAIN blocks |-> i],
                           LAMBDA i : \A j \in 1..(i - 1) : blocks[j].id # blocks[i].id)
    IN  [k \in DOMAIN first |->
            [tile_id |-> blocks[first[k]].id,
             fields |-> parse_tiles(blocks, blocks[first[k]].id)[1]]]

(* The k-th iteration of the nested loops over new_y and new_x *)
extract_region(blocks) ==
    [k \in 1..(NEW_WIDTH * NEW_HEIGHT) |->
        LET new_y == (k - 1) \div NEW_WIDTH
            new_x == (k - 1) % NEW_WIDTH
            src_id == source_coord(new_x, new_y)[2] * SOURCE_WIDTH
                          + source_coord(new_x, new_y)[1]
        IN  [tile_id |-> new_y * NEW_WIDTH + new_x,
             fields |-> SourceFields(parse_tiles(blocks, src_id)),
             is_boundary |-> ExtIsBoundary(new_x, new_y)]]

ext_write_xml(extracted) ==
    [i \in DOMAIN extracted |->
        [id |-> extracted[i].tile_id,
         lines |-> ExtWriteTile(extracted[i].tile_id, extracted[i].fields,
                                extracted[i].is_boundary, STARTING_UNITS, CITIES)]]

(* The tile local of the k-th iteration of extract_and_transform, before *)
(* the removals and overlays are applied to its fields.                 *)
freeze_source_tiles(blocks) ==
    [k \in 1..(NEW_WIDTH * NEW_HEIGHT) |->
        LET new_y == (k - 1) \div NEW_WIDTH
            new_x == (k - 1) % NEW_WIDTH
            src_id == source_coord(new_x, new_y)[2] * SOURCE_WIDTH
                          + source_coord(new_x, new_y)[1]
        IN  [tile_id |-> new_y * NEW_WIDTH + new_x,
             fields |-> SourceFields(parse_tiles(blocks, src_id))]]

extract_and_transform(blocks) ==
    [k \in 1..(NEW_WIDTH * NEW_HEIGHT) |->
        LET new_y == (k - 1) \div NEW_WIDTH
            new_x == (k - 1) % NEW_WIDTH
            src_id == source_coord(new_x, new_y)[2] * SOURCE_WIDTH
                          + source_coord(new_x, new_y)[1]
            new_id == new_y * NEW_WIDTH + new_x
        IN  [tile_id |-> new_id,
             fields |-> FreezeTransform(new_id, SourceFields(parse_tiles(blocks, src_id)))]]

-----------------------------------------------------------------------------
(* Bounds of the model and the inputs drawn within them *)

MaxBlocks == 2


MaxFields == 2

GW == 8

GH == 8

SeqsUpTo(S, n) == UNION {[1..k -> S] : k \in 0..n}

DistinctTags(es) == \A i, j \in DOMAIN es : es[i].name = es[j].name => i = j

BlocksOver(pool) == {es \in SeqsUpTo(pool, MaxFields) : DistinctTags(es)}

(* Child tags a terrain tile block of the frozen terrain file may hold. *)
GenPool ==
    { Element("Terrain", "TERRAIN_TEMPERATE"), SelfClosing("Terrain"),
      Element("Terrain", ""), Element("CitySite", "ACTIVE"),
      Element("Height", "HEIGHT_FLAT"), SelfClosing("RiverW"),
      SelfClosing("Boundary"), SelfClosing("Religion") }

GenBlocks == BlocksOver(GenPool)

(* Child tags a tile block of the source map may hold. *)
ExtPool ==
    { Element("Terrain", "TERRAIN_TEMPERATE"), Element("Terrain", "TERRAIN_URBAN"),
      Element("CitySite", "ACTIVE"),
      Element("Improvement", "IMPROVEMENT_CITY_SITE"),
      Element("Improvement", "IMPROVEMENT_FARM"),
      Element("ElementName", "TEXT_CITYNAME"),
      Element("Metadata", "1"), Element("NationSite", "NATION_ROME"),
      SelfClosing("Boundary") }

(* Terrain documents: any MapWidth (or none), tile blocks in any order, *)
(* with gaps and repeated IDs.                                         *)
DocPool == { Element("Terrain", "TERRAIN_TEMPERATE"), SelfClosing("Boundary") }

(* Tile IDs 0 .. MaxBlocks and, for a map of width 1, the tile of the first *)
(* unit placement.                                                         *)
DocBlocks ==
    [id : 0..MaxBlocks \cup {STARTING_UNITS[1][2] * 1 + STARTING_UNITS[1][1]},
     entries : BlocksOver(DocPool)]

Docs == [width : {None, Some(1), Some(2)}, blocks : SeqsUpTo(DocBlocks, MaxBlocks)]

(* Texts whose tile blocks may lack </Tile> or carry a non-numeric ID *)
Chunks == [id : {None, Some(0), Some(1)}, closed : BOOLEAN, entries : BlocksOver(DocPool)]

Texts == [width : {None, Some(1)}, chunks : SeqsUpTo(Chunks, MaxBlocks)]

(* Terrain files and arguments given to insert_rows *)
MaxCount == 2

RowEntries ==
    { <<>>, << Element("Terrain", "TERRAIN_ARID"), Element("Height", "HEIGHT_HILL") >>,
      << SelfClosing("RiverW") >>,
      << SelfClosing("Terrain"), Element("Height", "HEIGHT_FLAT") >> }

RowDocs ==
    [width : {None, Some(1), Some(2)},
     blocks : SeqsUpTo([id : 0..MaxBlocks, entries : RowEntries], MaxBlocks)]

RowArgs == [after : -2..2, count : 0..MaxCount]

(* Base terrain and editor map given to import_editor_terrain: each holds, *)
(* in ascending ID order, a block for some of three tiles: a boundary tile *)
(* and two interior tiles of the MAP_WIDTH x MAP_HEIGHT grid.              *)
ImportIds == << 0, 2 * MAP_WIDTH + 2, 2 * MAP_WIDTH + 3 >>

BaseEntries ==
    { << Element("Terrain", "TERRAIN_LUSH"), Element("Height", "HEIGHT_FLAT") >>,
      << Element("Height", "HEIGHT_HILL"), Element("RiverW", "1") >>,
      << SelfClosing("CitySite"), Element("Terrain", "TERRAIN_TEMPERATE") >>,
      << SelfClosing("Boundary"), SelfClosing("RiverSE"),
         Element("Height", "HEIGHT_FLAT") >> }

EditorEntries ==
    { << Element("Terrain", "TERRAIN_TUNDRA"), Element("Height", "HEIGHT_HILL") >>,
      << Element("Terrain", "TERRAIN_URBAN"), Element("Height", "HEIGHT_FLAT"),
         Element("RiverW", "2") >>,
      << SelfClosing("Boundary"), Element("Height", "HEIGHT_FLAT"),
         Element("Terrain", "TERRAIN_LUSH") >>,
      << Element("Height", "HEIGHT_HILL"), Element("RiverW", "1") >> }

(* The blocks of a text that holds entries[k] for ImportIds[k], if any *)
BlocksFor(choice) ==
    LET present == SelectSeq([k \in DOMAIN ImportIds |-> k], LAMBDA k : choice[k] # None)
    IN  [j \in DOMAIN present |->
            [id |-> ImportIds[present[j]], entries |-> choice[present[j]][1]]]

ImportBases ==
    { BlocksFor(c) : c \in [DOMAIN ImportIds -> {None} \cup {Some(e) : e \in BaseEntries}] }

ImportEditors ==
    { BlocksFor(c) : c \in [DOMAIN ImportIds -> {None} \cup {Some(e) : e \in EditorEntries}] }

AsChunks(blocks) ==
    [i \in DOMAIN blocks |->
        [id |-> Some(blocks[i].id), closed |-> TRUE, entries |-> blocks[i].entries]]

AsBlocks(chunks) ==
    [i \in DOMAIN chunks |-> [id |-> chunks[i].id[1], entries |-> chunks[i].entries]]

(* Source maps: tile blocks for the first and the last tile of the region *)
(* and for a tile outside it; every other source tile is missing.         *)
SrcIds ==
    { SRC_Y_MIN * SOURCE_WIDTH + SRC_X_MIN, SRC_Y_MAX * SOURCE_WIDTH + SRC_X_MAX, 0 }

SrcBlocks ==
    [id : SrcIds,
     entries : {<<>>, << Element("Terrain", "TERRAIN_TEMPERATE") >>,
                << Element("Metadata", "1") >>}]

SrcDocs == [width : {None}, blocks : SeqsUpTo(SrcBlocks, MaxBlocks)]

(* tiles.get(src_id): no tile, or the parsed fields of a tile block *)
ExtSourceTiles == {None} \cup {Some(ParseFields(blk)) : blk \in BlocksOver(ExtPool)}

(* City lists and unit placements handed to write_tile: the lists of the *)
(* script itself, and lists that exercise radius, clamps, extra tiles,   *)
(* overlap and tribe ownership on the interior of a GW x GH grid.        *)
GenConfigs ==
    { [cities |-> make_cities(GW), units |-> STARTING_UNITS],
      [cities |-> << CityDef(0, GW, 0, 3, 3,
                             Some(<< <<5, 5>>, <<1, 1>>, <<2, 2>> >>),
                             2, Some(3), None, None, Some(4)) >>,
       units |-> << <<3, 3, "UNIT_HASTATUS">>, <<4, 3, "UNIT_WORKER">>,
                    <<4, 3, "UNIT_WARRIOR">>, <<0, 0, "UNIT_WORKER">>,
                    <<5, 2, "UNIT_WORKER">> >>],
      [cities |-> << CityDef(0, GW, 0, 3, 3, None, 2, None, None, None, None),
                     CityDef(1, GW, 0, 4, 4, None, 2, None, None, None, None) >>,
       units |-> << <<5, 5, "UNIT_HASTATUS">>, <<2, 5, "UNIT_WORKER">> >>],
      [cities |-> << CityDef(0, GW, 0, 3, 3, None, 2, None, Some(3), None, None),
                     CityDef(1, GW, 1, 4, 4, None, 1, None, None, Some(3), None) >>,
       units |-> << <<4, 3, "UNIT_HASTATUS">>, <<2, 2, "UNIT_WORKER">> >>],
      [cities |-> << CityDef(0, GW, -1, 4, 4, None, 2, None, None, None, None),
                     CityDef(1, GW, 0, 3, 3, None, 1, None, None, None, None) >>,
       units |-> << <<4, 4, "UNIT_HASTATUS">>, <<5, 5, "UNIT_WORKER">> >>],
      [cities |-> << CityDef(0, GW, -1, 3, 4, None, 2, None, None, None, None) >>,
       units |-> <<>>] }

-----------------------------------------------------------------------------
(* State machine.  A run is one invocation of one script (op): it starts in *)
(* the ready state, reads its input and ends in a done state that holds the *)
(* input and the result, or in an error state.  file is the list of the     *)
(* contents written to the script's output path during the run: it is empty *)
(* as long as the output file is as it was before the run.                  *)

Scripts ==
    { "generate_scenario", "extract_map", "freeze_terrain", "round_trip",
      "generate_scenario.main", "extract_map.main", "freeze_terrain.main",
      "parse_frozen_terrain", "parse_tiles", "insert_rows.main",
      "import_editor_terrain.main" }

(* No command-line arguments, no raw text read *)
NoArgs == [after |-> 0, count |-> 0]

NoText == [width |-> None, chunks |-> <<>>]

(* No geometry function has been called *)
NoCall == [a |-> <<0, 0>>, b |-> <<0, 0>>, grid |-> <<0, 0>>, result |-> None]

Init ==
    /\ pc = "ready"
    /\ op \in Scripts
    /\ width = 0
    /\ height = 0
    /\ cities = <<>>
    /\ units = <<>>
    /\ tile_id = 0
    /\ boundary = FALSE
    /\ src = <<>>
    /\ out = <<>>
    /\ doc = [width |-> None, blocks |-> <<>>]
    /\ tiles = <<>>
    /\ emitted = <<>>
    /\ text = NoText
    /\ args = NoArgs
    /\ file = <<>>
    /\ geo = NoCall

(* generate_scenario: one iteration of write_xml's tile loop, on any tile *)
(* of a parsed GW x GH terrain file.                                      *)
GenTile ==
    /\ pc = "ready"
    /\ op = "generate_scenario"
    /\ UNCHANGED <<geo, file, args, text>>
    /\ \E cfg \in GenConfigs, t \in 0..(GW * GH - 1), blk \in GenBlocks :
        LET fields == ParseFields(blk)
            b == GenIsBoundary(t, GW, GH)
        IN  /\ pc' = "done"
            /\ op' = op
            /\ width' = GW
            /\ height' = GH
            /\ cities' = cfg.cities
            /\ units' = cfg.units
            /\ tile_id' = t
            /\ boundary' = b
            /\ src' = fields
            /\ out' = GenWriteTile(t, fields, b, GW, cfg.cities, cfg.units)
            /\ UNCHANGED <<doc, tiles, emitted>>

(* extract_map: one destination tile of extract_region, then write_tile *)
ExtTile ==
    /\ pc = "ready"
    /\ op = "extract_map"
    /\ UNCHANGED <<geo, file, args, text>>
    /\ \E new_y \in 0..(NEW_HEIGHT - 1), new_x \in 0..(NEW_WIDTH - 1),
          tile \in ExtSourceTiles :
        LET new_id == new_y * NEW_WIDTH + new_x
            fields == SourceFields(tile)
            b == ExtIsBoundary(new_x, new_y)
        IN  /\ pc' = "done"
            /\ op' = op
            /\ width' = NEW_WIDTH
            /\ height' = NEW_HEIGHT
            /\ cities' = CITIES
            /\ units' = STARTING_UNITS
            /\ tile_id' = new_id
            /\ boundary' = b
            /\ src' = fields
            /\ out' = ExtWriteTile(new_id, fields, b, STARTING_UNITS, CITIES)
            /\ UNCHANGED <<doc, tiles, emitted>>

(* freeze_terrain: one destination tile of extract_and_transform *)
FreezeTile ==
    /\ pc = "ready"
    /\ op = "freeze_terrain"
    /\ UNCHANGED <<geo, file, args, text>>
    /\ \E new_y \in 0..(NEW_HEIGHT - 1), new_x \in 0..(NEW_WIDTH - 1),
          tile \in ExtSourceTiles :
        LET new_id == new_y * NEW_WIDTH + new_x
            fields == SourceFields(tile)
            out_fields == FreezeTransform(new_id, fields)
        IN  /\ pc' = "done"
            /\ op' = op
            /\ width' = NEW_WIDTH
            /\ height' = NEW_HEIGHT
            /\ cities' = <<>>
            /\ units' = <<>>
            /\ tile_id' = new_id
            /\ boundary' = FALSE
            /\ src' = fields
            /\ out' = [i \in DOMAIN out_fields |-> Line(out_fields[i])]
            /\ UNCHANGED <<doc, tiles, emitted>>

(* parse_terrain followed by write_terrain with no edit in between *)
RoundTrip ==
    /\ pc = "ready"
    /\ op = "round_trip"
    /\ UNCHANGED <<geo, file, args, text>>
    /\ \E d \in Docs :
        /\ doc' = d
        /\ op' = op
        /\ IF d.width = None
           THEN /\ pc' = "error"
                /\ UNCHANGED <<width, height, tiles, emitted>>
           ELSE LET p == parse_terrain(d)
                IN  /\ pc' = "done"
                    /\ width' = p.width
                    /\ height' = p.height
                    /\ tiles' = p.tiles
                    /\ emitted' = write_terrain(p.tiles)
        /\ UNCHANGED <<cities, units, tile_id, boundary, src, out>>

(* generate_scenario.main: parse_frozen_terrain, then write_xml *)
GenerateScenario ==
    /\ pc = "ready"
    /\ op = "generate_scenario.main"
    /\ UNCHANGED <<geo, args, text>>
    /\ \E d \in Docs :
        /\ doc' = d
        /\ op' = op
        /\ IF d.width = None
           THEN /\ pc' = "error"
                /\ UNCHANGED <<width, height, tiles, emitted, cities, units, file>>
           ELSE LET p == parse_frozen_terrain(d)
                IN  /\ pc' = "done"
                    /\ width' = p.width
                    /\ height' = p.height
                    /\ tiles' = p.tiles
                    /\ cities' = make_cities(p.width)
                    /\ units' = STARTING_UNITS
                    /\ emitted' = write_xml(p.width, p.height, p.tiles)
                    /\ file' = Append(file, write_xml(p.width, p.height, p.tiles))
        /\ UNCHANGED <<tile_id, boundary, src, out>>

(* extract_map.main: parse_tiles, extract_region, then write_xml *)
ExtractMap ==
    /\ pc = "ready"
    /\ op = "extract_map.main"
    /\ UNCHANGED <<geo, args, text>>
    /\ \E d \in SrcDocs :
        LET extracted == extract_region(d.blocks)
        IN  /\ pc' = "done"
            /\ op' = op
            /\ doc' = d
            /\ width' = NEW_WIDTH
            /\ height' = NEW_HEIGHT
            /\ cities' = CITIES
            /\ units' = STARTING_UNITS
            /\ tiles' = extracted
            /\ emitted' = ext_write_xml(extracted)
            /\ file' = Append(file, ext_write_xml(extracted))
            /\ UNCHANGED <<tile_id, boundary, src, out>>

(* freeze_terrain.main: parse_tiles, extract_and_transform, write_frozen_xml. *)
(* tiles records the source tile of every iteration, emitted the result.      *)
FreezeTerrain ==
    /\ pc = "ready"
    /\ op = "freeze_terrain.main"
    /\ UNCHANGED <<geo, args, text>>
    /\ \E d \in SrcDocs :
        LET transformed == extract_and_transform(d.blocks)
        IN  /\ pc' = "done"
            /\ op' = op
            /\ doc' = d
            /\ width' = NEW_WIDTH
            /\ height' = NEW_HEIGHT
            /\ tiles' = freeze_source_tiles(d.blocks)
            /\ emitted' = write_terrain(transformed)
            /\ file' = Append(file, write_terrain(transformed))
            /\ UNCHANGED <<cities, units, tile_id, boundary, src, out>>

(* parse_frozen_terrain on any text *)
ParseFrozenTerrain ==
    /\ pc = "ready"
    /\ op = "parse_frozen_terrain"
    /\ \E t \in Texts :
        /\ text' = t
        /\ IF t.width = None
           THEN /\ pc' = "error"
                /\ UNCHANGED <<width, height, tiles>>
           ELSE LET p == parse_frozen_terrain([width |-> t.width,
                                               blocks |-> split_tiles(t.chunks)])
                IN  /\ pc' = "done"
                    /\ width' = p.width
                    /\ height' = p.height
                    /\ tiles' = p.tiles
    /\ UNCHANGED <<op, cities, units, tile_id, boundary, src, out, doc, emitted,
                   geo, args, file>>

(* parse_tiles of extract_map.py on any text: MapWidth is not looked at *)
ParseTiles ==
    /\ pc = "ready"
    /\ op = "parse_tiles"
    /\ \E t \in Texts :
        /\ text' = t
        /\ pc' = "done"
        /\ tiles' = parse_tiles_items(split_tiles(t.chunks))
    /\ UNCHANGED <<op, width, height, cities, units, tile_id, boundary, src, out,
                   doc, emitted, geo, args, file>>

(* insert_rows.main: parse_args and parse_terrain *)
InsertRowsParse ==
    /\ pc = "ready"
    /\ op = "insert_rows.main"
    /\ \E d \in RowDocs, a \in RowArgs :
        /\ doc' = d
        /\ args' = a
        /\ IF d.width = None
           THEN /\ pc' = "error"
                /\ UNCHANGED <<width, height, tiles>>
           ELSE LET p == parse_terrain(d)
                IN  /\ pc' = "parsed"
                    /\ width' = p.width
                    /\ height' = p.height
                    /\ tiles' = p.tiles
    /\ UNCHANGED <<op, cities, units, tile_id, boundary, src, out, emitted,
                   geo, text, file>>

(* Variant: the terrain file is rewritten before the arguments are checked *)
InsertRowsValidate_WritesFirst ==
    /\ pc = "parsed"
    /\ op = "insert_rows.main"
    /\ pc' = IF args_rejected(args.after, args.count, height) THEN "error"
             ELSE "validated"
    /\ file' = Append(file, write_terrain(tiles))
    /\ UNCHANGED <<op, width, height, cities, units, tile_id, boundary, src, out,
                   doc, tiles, emitted, geo, text, args>>

(* insert_rows.main: the checks of --after and --count *)
InsertRowsValidate ==
    /\ pc = "parsed"
    /\ op = "insert_rows.main"
    /\ pc' = IF args_rejected(args.after, args.count, height) THEN "error"
             ELSE "validated"
    /\ UNCHANGED <<op, width, height, cities, units, tile_id, boundary, src, out,
                   doc, tiles, emitted, geo, text, args, file>>

(* insert_rows.main: new_tiles = insert_rows(...) *)
InsertRows ==
    /\ pc = "validated"
    /\ op = "insert_rows.main"
    /\ pc' = "built"
    /\ tiles' = insert_rows(width, height, tiles, args.after, args.count)
    /\ UNCHANGED <<op, width, height, cities, units, tile_id, boundary, src, out,
                   doc, emitted, geo, text, args, file>>

(* insert_rows.main: write_terrain(terrain_path, width, new_tiles) *)
InsertRowsWrite ==
    /\ pc = "built"
    /\ op = "insert_rows.main"
    /\ pc' = "done"
    /\ emitted' = write_terrain(tiles)
    /\ file' = Append(file, write_terrain(tiles))
    /\ UNCHANGED <<op, width, height, cities, units, tile_id, boundary, src, out,
                   doc, tiles, geo, text, args>>

(* import_editor_terrain.main: both files are read and parsed.  doc is the *)
(* base terrain, text the editor map, tiles the parsed base tiles.         *)
ImportRead ==
    /\ pc = "ready"
    /\ op = "import_editor_terrain.main"
    /\ \E b \in ImportBases, e \in ImportEditors :
        /\ doc' = [width |-> Some(MAP_WIDTH), blocks |-> b]
        /\ text' = [width |-> Some(MAP_WIDTH), chunks |-> AsChunks(e)]
        /\ tiles' = import_parse_tiles(b)
    /\ pc' = "parsed"
    /\ UNCHANGED <<op, width, height, cities, units, tile_id, boundary, src, out,
                   emitted, geo, args, file>>

(* import_editor_terrain.main: the tile-count check *)
ImportCheckCount ==
    /\ pc = "parsed"
    /\ op = "import_editor_terrain.main"
    /\ pc' = IF Len(tiles) # Len(import_parse_tiles(AsBlocks(text.chunks)))
             THEN "error" ELSE "validated"
    /\ UNCHANGED <<op, width, height, cities, units, tile_id, boundary, src, out,
                   doc, tiles, emitted, geo, text, args, file>>

(* import_editor_terrain.main: the merge loop and the total == 0 return *)
ImportMerge ==
    /\ pc = "validated"
    /\ op = "import_editor_terrain.main"
    /\ LET editor_tiles == import_parse_tiles(AsBlocks(text.chunks))
       IN  IF MergeKeyError(tiles, editor_tiles)
           THEN /\ pc' = "error"
                /\ UNCHANGED tiles
           ELSE /\ tiles' = MergeTiles(tiles, editor_tiles)
                /\ pc' = IF MergeTotal(tiles, editor_tiles) = 0 THEN "done" ELSE "built"
    /\ UNCHANGED <<op, width, height, cities, units, tile_id, boundary, src, out,
                   doc, emitted, geo, text, args, file>>

(* import_editor_terrain.main: base_path.write_text(output) *)
ImportWrite ==
    /\ pc = "built"
    /\ op = "import_editor_terrain.main"
    /\ pc' = "done"
    /\ emitted' = import_output(tiles)
    /\ file' = Append(file, import_output(tiles))
    /\ UNCHANGED <<op, width, height, cities, units, tile_id, boundary, src, out,
                   doc, tiles, geo, text, args>>

Next ==
    \/ ImportRead
    \/ ImportCheckCount
    \/ ImportMerge
    \/ ImportWrite
    \/ InsertRowsParse
    \/ InsertRowsValidate
    \/ InsertRows
    \/ InsertRowsWrite
    \/ ParseFrozenTerrain
    \/ ParseTiles
    \/ GenTile
    \/ ExtTile
    \/ FreezeTile
    \/ RoundTrip
    \/ GenerateScenario
    \/ ExtractMap
    \/ FreezeTerrain

Spec == Init /\ [][Next]_vars

-----------------------------------------------------------------------------
(* The geometry functions on their own.  A behaviour is one call: the       *)
(* initial state holds the arguments (a and b are offset coordinates, grid  *)
(* is the width and height of the grid), the call records the result.       *)

HexW == 6

HexH == 6

GeoFunctions ==
    { "hex_distance", "write_xml.is_boundary", "extract_region.is_boundary",
      "is_boundary" }

Coords(w, h) == {<<x, y>> : x \in 0..(w - 1), y \in 0..(h - 1)}

GenGrids == { <<NEW_WIDTH, NEW_HEIGHT>>, <<GW, GH>>, <<5, 4>>, <<3, 6>> }

GridsOf(fn) ==
    IF fn = "write_xml.is_boundary" THEN GenGrids
    ELSE IF fn = "extract_region.is_boundary" THEN { <<NEW_WIDTH, NEW_HEIGHT>> }
    ELSE { <<MAP_WIDTH, MAP_HEIGHT>> }

GeoInputs(fn) ==
    IF fn = "hex_distance"
    THEN [a : Coords(HexW, HexH), b : Coords(HexW, HexH), grid : {<<0, 0>>},
          result : {None}]
    ELSE UNION { [a : Coords(g[1], g[2]), b : {<<0, 0>>}, grid : {g}, result : {None}]
                 : g \in GridsOf(fn) }

GeoInit ==
    /\ pc = "ready"
    /\ op \in GeoFunctions
    /\ geo \in GeoInputs(op)
    /\ width = 0
    /\ height = 0
    /\ cities = <<>>
    /\ units = <<>>
    /\ tile_id = 0
    /\ boundary = FALSE
    /\ src = <<>>
    /\ out = <<>>
    /\ doc = [width |-> None, blocks |-> <<>>]
    /\ tiles = <<>>
    /\ emitted = <<>>
    /\ text = NoText
    /\ args = NoArgs
    /\ file = <<>>

Returns(v) ==
    /\ pc' = "done"
    /\ geo' = [geo EXCEPT !.result = Some(v)]
    /\ UNCHANGED <<op, width, height, cities, units, tile_id, boundary, src, out,
                   doc, tiles, emitted, text, args, file>>

HexDistance ==
    /\ pc = "ready"
    /\ op = "hex_distance"
    /\ Returns(hex_distance(geo.a[1], geo.a[2], geo.b[1], geo.b[2]))

(* The is_boundary expression of write_xml's tile loop *)
WriteXmlIsBoundary ==
    /\ pc = "ready"
    /\ op = "write_xml.is_boundary"
    /\ Returns(GenIsBoundary(geo.a[2] * geo.grid[1] + geo.a[1], geo.grid[1], geo.grid[2]))

(* The is_boundary expression of extract_region's loop *)
ExtractRegionIsBoundary ==
    /\ pc = "ready"
    /\ op = "extract_region.is_boundary"
    /\ Returns(ExtIsBoundary(geo.a[1], geo.a[2]))

(* is_boundary of import_editor_terrain.py *)
ImportIsBoundary ==
    /\ pc = "ready"
    /\ op = "is_boundary"
    /\ Returns(is_boundary(geo.a[2] * MAP_WIDTH + geo.a[1]))

GeoNext ==
    \/ HexDistance
    \/ WriteXmlIsBoundary
    \/ ExtractRegionIsBoundary
    \/ ImportIsBoundary

GeoSpec == GeoInit /\ [][GeoNext]_vars

-----------------------------------------------------------------------------
(* write_tile of extract_map.py as a function of its arguments: the city_map *)
(* it is handed is the one main builds from CITIES, or one with a city on a  *)
(* tile of REMOVE_CITY_SITES.                                                *)

CityMaps ==
    { CITIES,
      << CityDef(2, NEW_WIDTH, -1, 10, 10, None, 2, None, None, None, None) >> }

WriteTileIds == REMOVE_CITY_SITES \cup {CITIES[i].tile_id : i \in DOMAIN CITIES}

WriteTileInit ==
    /\ pc = "ready"
    /\ op = "extract_map.write_tile"
    /\ width = 0
    /\ height = 0
    /\ cities = <<>>
    /\ units = <<>>
    /\ tile_id = 0
    /\ boundary = FALSE
    /\ src = <<>>
    /\ out = <<>>
    /\ doc = [width |-> None, blocks |-> <<>>]
    /\ tiles = <<>>
    /\ emitted = <<>>
    /\ text = NoText
    /\ args = NoArgs
    /\ file = <<>>
    /\ geo = NoCall

WriteTile ==
    /\ pc = "ready"
    /\ op = "extract_map.write_tile"
    /\ \E new_id \in WriteTileIds, tile \in ExtSourceTiles, city_map \in CityMaps :
        LET fields == SourceFields(tile)
            b == ExtIsBoundary(new_id % NEW_WIDTH, new_id \div NEW_WIDTH)
        IN  /\ pc' = "done"
            /\ width' = NEW_WIDTH
            /\ height' = NEW_HEIGHT
            /\ cities' = city_map
            /\ units' = STARTING_UNITS
            /\ tile_id' = new_id
            /\ boundary' = b
            /\ src' = fields
            /\ out' = ExtWriteTile(new_id, fields, b, STARTING_UNITS, city_map)
    /\ UNCHANGED <<op, doc, tiles, emitted, geo, file, args, text>>

WriteTileNext == WriteTile

WriteTileSpec == WriteTileInit /\ [][WriteTileNext]_vars

-----------------------------------------------------------------------------
(* Vocabulary of the properties, read off the recorded input and output *)

Did(script) == pc = "done" /\ op = script

Composed == Did("generate_scenario") \/ Did("extract_map")

Overlaid == Did("extract_map") \/ Did("freeze_terrain")

TileX == tile_id % width

TileY == tile_id \div width

ValueOf(lines, t) == lines[IndexOf(lines, t)].val

AttrOf(lines, t) == lines[IndexOf(lines, t)].attrs[1][2]

PlayerCityHere(i) ==
    /\ i \in DOMAIN cities
    /\ cities[i].player >= 0
    /\ cities[i].x = TileX
    /\ cities[i].y = TileY

UnitHere == \E i \in DOMAIN units : units[i][1] = TileX /\ units[i][2] = TileY

ListedExtra(c) ==
    /\ c.extra_territory # None
    /\ \E k \in DOMAIN c.extra_territory[1] :
           c.extra_territory[1][k] = <<TileX, TileY>>

ClampsRespected(c) ==
    /\ (c.territory_x_min # None => TileX >= c.territory_x_min[1])
    /\ (c.territory_x_max # None => TileX <= c.territory_x_max[1])
    /\ (c.territory_y_min # None => TileY >= c.territory_y_min[1])
    /\ (c.territory_y_max # None => TileY <= c.territory_y_max[1])

WithinRadius(c) == hex_distance(TileX, TileY, c.x, c.y) <= c.territory_radius

(* The claim rule of the specification for city number i *)
ClaimRule(i) ==
    /\ cities[i].player >= 0
    /\ ListedExtra(cities[i]) \/ (WithinRadius(cities[i]) /\ ClampsRespected(cities[i]))

Claimants == {i \in DOMAIN cities : ClaimRule(i)}

OverlayHere(imp) ==
    \E i \in DOMAIN PLACED_IMPROVEMENTS : PLACED_IMPROVEMENTS[i] = <<TileX, TileY, imp>>

OverlayTokens == {PLACED_IMPROVEMENTS[i][3] : i \in DOMAIN PLACED_IMPROVEMENTS}

-----------------------------------------------------------------------------
(* C1 as stated: a tile whose terrain record has an Improvement tag and that *)
(* an improvement overlay targets keeps the terrain's Improvement value, in  *)
(* exactly one Improvement tag.                                              *)
C1_Original ==
    (Overlaid /\ CountTag(src, "Improvement") = 1) =>
        \A imp \in OverlayTokens : OverlayHere(imp) =>
            /\ CountTag(out, "Improvement") = 1
            /\ ValueOf(out, "Improvement") = ValueOf(src, "Improvement")

(* C1 as amended: a tile whose terrain record has one Improvement tag and    *)
(* that an improvement overlay targets is written with exactly one           *)
(* Improvement tag, and its value is the overlay's token: the overlay        *)
(* overrides the terrain's improvement and is never written a second time.   *)
C1_OverlayOverridesTerrainImprovement ==
    (Overlaid /\ CountTag(src, "Improvement") = 1) =>
        \A imp \in OverlayTokens : OverlayHere(imp) =>
            /\ CountTag(out, "Improvement") = 1
            /\ ValueOf(out, "Improvement") = Some(imp)

C1_Witness ==
    /\ Did("freeze_terrain")
    /\ OverlayHere("IMPROVEMENT_GARRISON_1")
    /\ Len(src) = 2
    /\ src[1] = Field("Improvement", Some("IMPROVEMENT_FARM"))
    /\ out = << Valued("Improvement", "IMPROVEMENT_GARRISON_1"), Line(src[2]) >>

-----------------------------------------------------------------------------
(* C2: city composition chain.  A non-boundary terrain tile that has a     *)
(* Terrain tag and is the anchor of a player-owned city is written with    *)
(* Terrain=TERRAIN_URBAN, exactly one CitySite tag, valued USED, at the    *)
(* position the terrain had it or appended right after the terrain fields, *)
(* OrigUrbanOwner equal to the city's player index, and a RevealedCity tag.*)
C2_CityCompositionChain ==
    (Did("generate_scenario") /\ ~boundary /\ HasTag(src, "Terrain")) =>
        \A i \in DOMAIN cities : PlayerCityHere(i) =>
            /\ CountTag(out, "Terrain") = 1
            /\ ValueOf(out, "Terrain") = Some("TERRAIN_URBAN")
            /\ CountTag(out, "CitySite") = 1
            /\ ValueOf(out, "CitySite") = Some("USED")
            /\ IndexOf(out, "CitySite") =
                   (IF HasTag(src, "CitySite") THEN IndexOf(src, "CitySite")
                    ELSE Len(src) + 1)
            /\ CountTag(out, "OrigUrbanOwner") = 1
            /\ ValueOf(out, "OrigUrbanOwner") = Some(ToString(cities[i].player))
            /\ CountTag(out, "RevealedCity") = 1

C2_Witness ==
    /\ Did("generate_scenario")
    /\ ~boundary
    /\ Len(src) = 2
    /\ src[1].tag = "CitySite"
    /\ src[2] = Field("Terrain", Some("TERRAIN_TEMPERATE"))
    /\ \E i \in DOMAIN cities : PlayerCityHere(i) /\ cities[i].player = 1
    /\ out[1] = Valued("CitySite", "USED")
    /\ out[2] = Valued("Terrain", "TERRAIN_URBAN")

(* C3: territory claim rule.  On a non-boundary tile a CityTerritory tag is *)
(* written exactly when some player-owned city lists the tile in its        *)
(* extra_territory or has it within its radius with no set clamp violated;  *)
(* with a single such city the tag names that city.  Boundary tiles are     *)
(* never claimed.                                                           *)
C3_TerritoryClaimRule ==
    Did("generate_scenario") =>
        /\ (CountTag(out, "CityTerritory") >= 1) <=> (~boundary /\ Claimants # {})
        /\ \A i \in Claimants :
               (~boundary /\ Claimants = {i}) =>
                   ValueOf(out, "CityTerritory") = Some(ToString(cities[i].city_id))

C3_Witness ==
    /\ Did("generate_scenario")
    /\ ~boundary
    /\ \E i \in DOMAIN cities :
           /\ ListedExtra(cities[i])
           /\ ~WithinRadius(cities[i])
           /\ ~ClampsRespected(cities[i])
           /\ ValueOf(out, "CityTerritory") = Some(ToString(cities[i].city_id))

(* C4: territory tie-break.  When several player-owned cities satisfy the *)
(* claim rule for a non-boundary tile, CityTerritory is the city_id of    *)
(* the first of them in list order; a city that fails its clamps is       *)
(* skipped and the cities after it are still considered.                  *)
C4_FirstListedCityWins ==
    (Composed /\ ~boundary /\ Claimants # {}) =>
        LET first == CHOOSE i \in Claimants : \A j \in Claimants : i <= j
        IN  ValueOf(out, "CityTerritory") = Some(ToString(cities[first].city_id))

C4_Witness ==
    /\ Composed
    /\ ~boundary
    /\ \E i, j \in Claimants :
           /\ i < j
           /\ ValueOf(out, "CityTerritory") = Some(ToString(cities[i].city_id))

(* C5: territory exclusivity.  Every composed tile record carries at most *)
(* one CityTerritory tag, whatever the city list is.                      *)
C5_AtMostOneCityTerritory ==
    Composed => CountTag(out, "CityTerritory") <= 1

C5_Witness ==
    /\ Composed
    /\ Cardinality(Claimants) >= 2
    /\ \E i \in DOMAIN cities : PlayerCityHere(i)
    /\ CountTag(out, "CityTerritory") = 1

(* C6: revelation rule.  Revealed is written exactly when the tile is not *)
(* a boundary tile and hosts a unit or is the own tile of a player-owned  *)
(* city; RevealedCityTerritory exactly when the tile is revealed and a    *)
(* territory claim was resolved; RevealedCity exactly when the tile is    *)
(* revealed and is a player-owned city tile.                              *)
C6_RevelationRule ==
    Composed =>
        LET revealed == ~boundary /\ (UnitHere \/ \E i \in DOMAIN cities : PlayerCityHere(i))
        IN  /\ CountTag(out, "Revealed") = (IF revealed THEN 1 ELSE 0)
            /\ CountTag(out, "RevealedCityTerritory") =
                   (IF revealed /\ Claimants # {} THEN 1 ELSE 0)
            /\ CountTag(out, "RevealedCity") =
                   (IF revealed /\ \E i \in DOMAIN cities : PlayerCityHere(i)
                    THEN 1 ELSE 0)

C6_Witness ==
    /\ Composed
    /\ ~boundary
    /\ UnitHere
    /\ Claimants # {}
    /\ ~\E i \in DOMAIN cities : PlayerCityHere(i)
    /\ CountTag(out, "Revealed") = 1
    /\ CountTag(out, "RevealedCityTerritory") = 1
    /\ CountTag(out, "RevealedCity") = 0

(* C7 as stated: on every revealed tile there is a RevealedTerrain tag and *)
(* its Terrain attribute equals the Terrain tag written in the record.     *)
C7_Original ==
    (Composed /\ CountTag(out, "Revealed") = 1) =>
        /\ CountTag(out, "RevealedTerrain") = 1
        /\ CountTag(out, "Terrain") = 1
        /\ Some(AttrOf(out, "RevealedTerrain")) = ValueOf(out, "Terrain")

(* C7 as amended: a revealed tile carries a RevealedTerrain tag exactly     *)
(* when its composed record has a Terrain tag with a non-empty value, and   *)
(* the Terrain attribute of that tag equals the value of the Terrain tag    *)
(* written in the same record (the value after the overrides).              *)
C7_RevealedTerrainMirrorsWrittenTerrain ==
    (Composed /\ CountTag(out, "Revealed") = 1) =>
        LET valued == /\ CountTag(out, "Terrain") = 1
                      /\ ValueOf(out, "Terrain") # None
                      /\ ValueOf(out, "Terrain") # Some("")
        IN  /\ CountTag(out, "RevealedTerrain") = (IF valued THEN 1 ELSE 0)
            /\ valued => Some(AttrOf(out, "RevealedTerrain")) = ValueOf(out, "Terrain")

C7_Witness ==
    /\ Composed
    /\ CountTag(out, "Revealed") = 1
    /\ HasTag(src, "Terrain")
    /\ ValueOf(src, "Terrain") = Some("TERRAIN_TEMPERATE")
    /\ ValueOf(out, "Terrain") = Some("TERRAIN_URBAN")
    /\ AttrOf(out, "RevealedTerrain") = "TERRAIN_URBAN"

-----------------------------------------------------------------------------
DocIds == [i \in DOMAIN doc.blocks |-> doc.blocks[i].id]

EmittedIds == [i \in DOMAIN emitted |-> emitted[i].id]

Ascending(ids) == \A i, j \in DOMAIN ids : i < j => ids[i] < ids[j]

(* Every ID 0..n-1 once, in any order of the text *)
DenseInAnyOrder(ids) ==
    /\ {ids[i] : i \in DOMAIN ids} = 0..(Len(ids) - 1)
    /\ Len(ids) % width = 0

(* C8: round-trip idempotence.  Parsing a well-formed document (a MapWidth, *)
(* every tile ID once and in ascending order, no tag twice in a tile) and   *)
(* writing it back with no edit yields the same tile blocks: same IDs, and  *)
(* in every block the same tags, of the same kind, with the same values, in *)
(* the same order.                                                          *)
C8_RoundTripIdentity ==
    (Did("round_trip") /\ DenseInAnyOrder(DocIds) /\ Ascending(DocIds)) =>
        emitted = doc.blocks

(* C9: tile order of the output.  Whatever order the tile blocks of a dense *)
(* terrain file are declared in, the parsed tile list is sorted by tile ID  *)
(* and the scenario is written with one block per tile in ascending ID      *)
(* order.                                                                   *)
C9_OutputInAscendingIdOrder ==
    (Did("generate_scenario.main") /\ DenseInAnyOrder(DocIds)) =>
        /\ Len(emitted) = Len(doc.blocks)
        /\ Ascending([i \in DOMAIN tiles |-> tiles[i].tile_id])
        /\ Ascending(EmittedIds)

(* C10: ID density.  The tile IDs written by extract_map, by freeze_terrain *)
(* and by generate_scenario are exactly 0 .. width*height-1, each once.     *)
C10_EmittedIdsAreDense ==
    (Did("extract_map.main") \/ Did("freeze_terrain.main") \/ Did("generate_scenario.main")) =>
        /\ Len(emitted) = width * height
        /\ {emitted[i].id : i \in DOMAIN emitted} = 0..(width * height - 1)

-----------------------------------------------------------------------------
(* The source tile at a source coordinate: the last tile block of the source *)
(* map whose ID addresses column sx of row sy, if there is one.              *)
SourceBlocksAt(sx, sy) ==
    {i \in DOMAIN doc.blocks :
        /\ doc.blocks[i].id % SOURCE_WIDTH = sx
        /\ doc.blocks[i].id \div SOURCE_WIDTH = sy}

OpenWater ==
    << Field("Terrain", Some("TERRAIN_WATER")), Field("Height", Some("HEIGHT_OCEAN")) >>

Extracted == Did("extract_map.main") \/ Did("freeze_terrain.main")

(* C11: extraction default.  For every destination coordinate (x, y) of the *)
(* extracted region, if the source map has no tile at the source coordinate *)
(* (SRC_X_MIN + x, SRC_Y_MIN + y), because the row lies beyond the source   *)
(* tiles or the tile is a hole, the extracted record is exactly             *)
(* Terrain=TERRAIN_WATER, Height=HEIGHT_OCEAN; otherwise it is the field    *)
(* list parsed from the source tile at that coordinate, unchanged.          *)
C11_ExtractionDefault ==
    Extracted =>
        \A y \in 0..(NEW_HEIGHT - 1), x \in 0..(NEW_WIDTH - 1) :
            LET at == SourceBlocksAt(SRC_X_MIN + x, SRC_Y_MIN + y)
                rec == tiles[y * NEW_WIDTH + x + 1]
            IN  /\ rec.tile_id = y * NEW_WIDTH + x
                /\ rec.fields = IF at = {} THEN OpenWater
                                ELSE ParseFields(doc.blocks[MaxOf(at)].entries)

C11_Witness ==
    /\ Extracted
    /\ Len(doc.blocks) = 2
    /\ doc.blocks[1] = [id |-> SRC_Y_MIN * SOURCE_WIDTH + SRC_X_MIN,
                        entries |-> << Element("Metadata", "1") >>]
    /\ doc.blocks[2].id = 0
    /\ tiles[1].fields = << Field("Metadata", Some("1")) >>
    /\ tiles[2].fields = OpenWater
    /\ tiles[NEW_WIDTH * NEW_HEIGHT].fields = OpenWater

-----------------------------------------------------------------------------
(* Vocabulary of the geometry properties *)

Called(fn) == pc = "done" /\ op = fn

(* The six cells adjacent to (x, y) on the odd-row-right grid: west, east, *)
(* the NE and NW cells of place_river in the row y + 1, and the cells of   *)
(* the same two columns in the row y - 1.                                  *)
Neighbours(c) ==
    LET x == c[1]
        y == c[2]
    IN  { <<x - 1, y>>, <<x + 1, y>>, ne(x, y), nw(x, y),
          <<ne(x, y)[1], y - 1>>, <<nw(x, y)[1], y - 1>> }

(* The least number of adjacent-cell steps from the cells of reached to b, *)
(* when the cells of reached are k steps away at most.                     *)
RECURSIVE StepsFrom(_, _, _)
StepsFrom(reached, b, k) ==
    IF b \in reached THEN k
    ELSE StepsFrom(reached \cup UNION {Neighbours(c) : c \in reached}, b, k + 1)

Steps(a, b) == StepsFrom({a}, b, 0)

(* C12: extraction preserves hex row parity.  Every destination row has the *)
(* parity of its source row, and the hex distance of two destination tiles  *)
(* equals the hex distance of their source coordinates.                     *)
C12_ExtractionPreservesHexGeometry ==
    Called("hex_distance") =>
        LET sa == source_coord(geo.a[1], geo.a[2])
            sb == source_coord(geo.b[1], geo.b[2])
        IN  /\ sa[2] % 2 = geo.a[2] % 2
            /\ sb[2] % 2 = geo.b[2] % 2
            /\ geo.result = Some(hex_distance(sa[1], sa[2], sb[1], sb[2]))

(* A pair of tiles whose distance is kept by the configured offset and *)
(* changed by a region that starts one source row lower.               *)
C12_Witness ==
    /\ Called("hex_distance")
    /\ geo.a = <<0, 0>>
    /\ geo.b = <<1, 1>>
    /\ geo.result = Some(2)
    /\ hex_distance(SRC_X_MIN, SRC_Y_MIN, SRC_X_MIN + 1, SRC_Y_MIN + 1) = 2
    /\ hex_distance(SRC_X_MIN, SRC_Y_MIN + 1, SRC_X_MIN + 1, SRC_Y_MIN + 2) = 1

(* C13: hex_distance is the hex-grid metric.  hex_distance(A, B) is the     *)
(* least number of adjacent-cell steps from A to B on the odd-row-right     *)
(* grid.                                                                    *)
C13_HexDistanceIsStepMetric ==
    Called("hex_distance") => geo.result = Some(Steps(geo.a, geo.b))

C13_Witness ==
    /\ Called("hex_distance")
    /\ geo.a[2] % 2 = 1
    /\ geo.b[2] % 2 = 0
    /\ geo.a[1] > geo.b[1]
    /\ geo.result = Some(Steps(geo.a, geo.b))
    /\ geo.result[1] >= 4

(* C14: distance symmetry and identity.  hex_distance(A, B) equals          *)
(* hex_distance(B, A), it is 0 when A = B, and it is a non-negative integer.*)
C14_HexDistanceSymmetricAndZeroOnSelf ==
    Called("hex_distance") =>
        /\ geo.result = Some(hex_distance(geo.b[1], geo.b[2], geo.a[1], geo.a[2]))
        /\ geo.result[1] \in Nat
        /\ (geo.a = geo.b => geo.result = Some(0))

C14_Witness ==
    /\ Called("hex_distance")
    /\ geo.a[2] % 2 # geo.b[2] % 2
    /\ geo.result[1] >= 3
    /\ geo.result = Some(hex_distance(geo.b[1], geo.b[2], geo.a[1], geo.a[2]))

(* C15: boundary membership.  Each of the three boundary tests answers, for *)
(* a coordinate (x, y) of its width x height grid, whether x < 2 or         *)
(* x >= width - 2 or y < 2 or y >= height - 2; on the 23 x 29 grid this is  *)
(* true for (0,0), (22,28), (1,14) and false for (2,14), (20,14).           *)
C15_BoundaryMembership ==
    (pc = "done" /\ op \in GeoFunctions \ {"hex_distance"}) =>
        LET x == geo.a[1]
            y == geo.a[2]
            w == geo.grid[1]
            h == geo.grid[2]
        IN  /\ geo.result = Some(x < 2 \/ x >= w - 2 \/ y < 2 \/ y >= h - 2)
            /\ (geo.grid = <<23, 29>> /\ geo.a \in {<<0, 0>>, <<22, 28>>, <<1, 14>>})
                   => geo.result = Some(TRUE)
            /\ (geo.grid = <<23, 29>> /\ geo.a \in {<<2, 14>>, <<20, 14>>})
                   => geo.result = Some(FALSE)

C15_Witness ==
    /\ Called("extract_region.is_boundary")
    /\ geo.grid = <<23, 29>>
    /\ geo.a = <<20, 14>>
    /\ geo.result = Some(FALSE)

-----------------------------------------------------------------------------
(* C16: a missing terrain tile is fatal.  When the terrain file read by     *)
(* generate_scenario lacks a tile ID of its grid 0 .. width*height-1, the   *)
(* run ends in an error and no output document is written.                  *)
C16_MissingTileIsFatal ==
    (op = "generate_scenario.main" /\ pc # "ready" /\ doc.width # None
        /\ \E id \in 0..(doc.width[1] * (Len(doc.blocks) \div doc.width[1]) - 1) :
               \A i \in DOMAIN doc.blocks : doc.blocks[i].id # id)
    => (pc = "error" /\ file = <<>>)

-----------------------------------------------------------------------------
Malformed(c) == c.id = None \/ ~c.closed

(* C17: parse failure.  Parsing a text fails with an error when the         *)
(* MapWidth declaration is missing or when a tile block is malformed (no    *)
(* closing </Tile>, or an ID that is not a number).                         *)
C17_MalformedTextIsRejected ==
    (op \in {"parse_frozen_terrain", "parse_tiles"} /\ pc # "ready"
        /\ (text.width = None \/ \E i \in DOMAIN text.chunks : Malformed(text.chunks[i])))
    => pc = "error"

-----------------------------------------------------------------------------
(* Vocabulary of the insert_rows properties *)

InInsertRows == op = "insert_rows.main" /\ pc # "ready" /\ doc.width # None

BadArgs ==
    \/ args.count % 2 = 1
    \/ args.count < 1
    \/ args.after < -1
    \/ args.after > height - 1

(* The row an old row y is found at after the insertion *)
NewRow(y) == IF y <= args.after THEN y ELSE y + args.count

OldCell(x, y) ==
    LET p == parse_terrain(doc).tiles
        at == {i \in DOMAIN p : p[i].tile_id = y * width + x}
    IN  IF at = {} THEN WaterFields ELSE p[MaxOf(at)].fields

(* C18: row-insertion parameter validation.  A run of insert_rows with an  *)
(* odd --count, a count below 1 or --after outside -1 .. height-1 stops at *)
(* the checks: the tiles are as parsed, nothing is written, and the run    *)
(* ends in an error.  A run that gets past the checks has an even count,   *)
(* and every pre-existing row is written, with its content, at a row of    *)
(* the same parity.                                                        *)
C18_InsertRowsValidatesArguments ==
    /\ (InInsertRows /\ BadArgs) =>
            /\ pc \in {"parsed", "error"}
            /\ tiles = parse_terrain(doc).tiles
            /\ file = <<>>
    /\ (InInsertRows /\ pc = "done") =>
            /\ args.count % 2 = 0
            /\ \A y \in 0..(height - 1), x \in 0..(width - 1) :
                   /\ NewRow(y) % 2 = y % 2
                   /\ \E i \in DOMAIN emitted :
                          /\ emitted[i].id = NewRow(y) * width + x
                          /\ emitted[i].entries =
                                 [j \in DOMAIN OldCell(x, y) |-> WriteField(OldCell(x, y)[j])]

C18_Witness ==
    /\ InInsertRows
    /\ pc = "error"
    /\ args = [after |-> 0, count |-> 1]
    /\ height = 2
    /\ file = <<>>

-----------------------------------------------------------------------------
WritingScripts ==
    { "generate_scenario.main", "extract_map.main", "freeze_terrain.main",
      "insert_rows.main", "import_editor_terrain.main" }

(* The output built in memory is complete *)
WholeOutput ==
    IF op = "insert_rows.main"
    THEN /\ emitted = write_terrain(tiles)
         /\ Len(emitted) = (height + args.count) * width
    ELSE IF op = "import_editor_terrain.main"
    THEN /\ emitted = import_output(tiles)
         /\ {emitted[i].id : i \in DOMAIN emitted} = {doc.blocks[i].id : i \in DOMAIN doc.blocks}
    ELSE IF op = "generate_scenario.main"
    THEN Len(emitted) = Len(tiles)
    ELSE Len(emitted) = NEW_WIDTH * NEW_HEIGHT

(* C19: all-or-nothing output.  In every run of a script that writes a file, *)
(* the output file stays as it was before the run until the run is done: a   *)
(* run that ends in an error (missing MapWidth, rejected arguments, tile     *)
(* count mismatch, missing tile) has written nothing, and a file that was    *)
(* written was written once, with the whole output built in memory.          *)
C19_AllOrNothingOutput ==
    op \in WritingScripts =>
        /\ (pc # "done" => file = <<>>)
        /\ (file # <<>> => (Len(file) = 1 /\ file[1] = emitted /\ WholeOutput))

(* A run of the import that fails in the merge loop, on a base tile the *)
(* editor map lacks, after the tile counts were found equal.            *)
C19_Witness ==
    /\ op = "import_editor_terrain.main"
    /\ pc = "error"
    /\ Len(tiles) = Len(text.chunks)
    /\ Len(tiles) = 2
    /\ file = <<>>

-----------------------------------------------------------------------------
(* One Unit element is written per unit standing on the tile, so Unit is    *)
(* the one tag a record repeats by design.                                  *)
NoTagTwice(lines) ==
    \A i, j \in DOMAIN lines :
        (lines[i].tag = lines[j].tag /\ lines[i].tag # "Unit") => i = j

(* C20: no duplicate tags.  When the terrain record of a tile has no tag    *)
(* twice, the tile written by the compositor has no tag twice either: a     *)
(* Boundary flag of the record is not written next to the one of a boundary *)
(* tile, nor a Religion or RevealedTurn tag next to the one of the trailer. *)
C20_NoDuplicateTags ==
    (Did("generate_scenario") /\ NoTagTwice(src)) => NoTagTwice(out)

-----------------------------------------------------------------------------
(* C21: three-valued field lookup.  Looking a tag up in a tile record tells  *)
(* a tag that is present as a flag from a tag that is absent: the lookup of  *)
(* insert_rows (Terrain and Height of a template tile) and the lookup of the *)
(* editor import (the river fields of a base tile) give, for a tag the       *)
(* record holds, another result than the one they give for an absent tag.    *)
C21_ThreeValuedFieldLookup ==
    /\ (InInsertRows /\ pc = "parsed") =>
            \A i \in DOMAIN tiles, t \in {"Terrain", "Height"} :
                HasTag(tiles[i].fields, t) => get_field(tiles[i].fields, t) # None
    /\ (op = "import_editor_terrain.main" /\ pc = "parsed") =>
            \A i \in DOMAIN tiles, k \in DOMAIN RIVER_FIELDS :
                DictHas(tiles[i].fields, RIVER_FIELDS[k])
                    => DictGet(tiles[i].fields, RIVER_FIELDS[k], None) # None

-----------------------------------------------------------------------------
(* Vocabulary of the freeze rules *)

RemovedSite == tile_id \in REMOVE_CITY_SITES

OverlayQueued == \E imp \in OverlayTokens : OverlayHere(imp)

DropList == {"Metadata", "TribeSite", "NationSite", "Boundary"}

(* A source field that rule 3 (legacy city-site removal) or rule 4 (the *)
(* improvement overlay) acts on                                          *)
TouchedByLaterRule(f) ==
    \/ RemovedSite /\ f.tag \in {"CitySite", "ElementName"}
    \/ RemovedSite /\ f = Field("Improvement", Some("IMPROVEMENT_CITY_SITE"))
    \/ RemovedSite /\ f = Field("Terrain", Some("TERRAIN_URBAN"))
    \/ OverlayQueued /\ f.tag = "Improvement"

RECURSIVE IsSubsequence(_, _)
IsSubsequence(a, b) ==
    IF a = <<>> THEN TRUE
    ELSE IF b = <<>> THEN FALSE
    ELSE IF Head(a) = Head(b) THEN IsSubsequence(Tail(a), Tail(b))
    ELSE IsSubsequence(a, Tail(b))

CopiedFields ==
    SelectSeq(src, LAMBDA f : f.tag \notin DropList /\ ~TouchedByLaterRule(f))

(* C22: rule 1, copy with drop-list.  The frozen record of a tile holds no *)
(* Metadata, TribeSite, NationSite or Boundary tag, and the source fields  *)
(* outside the drop-list that no later rule acts on are all in the frozen  *)
(* record, with their values and in the order of the source record.        *)
C22_CopyWithDropList ==
    Did("freeze_terrain") =>
        /\ \A i \in DOMAIN out : out[i].tag \notin DropList
        /\ IsSubsequence([i \in DOMAIN CopiedFields |-> Line(CopiedFields[i])], out)

C22_Witness ==
    /\ Did("freeze_terrain")
    /\ ~RemovedSite
    /\ ~OverlayQueued
    /\ Len(src) = 2
    /\ src[1].tag = "NationSite"
    /\ src[2] = Field("Improvement", Some("IMPROVEMENT_FARM"))
    /\ out = << Line(src[2]) >>

-----------------------------------------------------------------------------
LegacyImprovement == Field("Improvement", Some("IMPROVEMENT_CITY_SITE"))

(* The number of lines the output holds before the line of source field k *)
LinesBefore(k) ==
    (IF boundary THEN 1 ELSE 0)
    + Len(SelectSeq(SubSeq(src, 1, k - 1),
                    LAMBDA f : f.tag \notin DropList \cup {"CitySite", "ElementName"}))

(* C23: rule 3, legacy city-site removal.  The record written for a tile of  *)
(* REMOVE_CITY_SITES has no CitySite and no ElementName tag.  When its source *)
(* record holds Improvement = IMPROVEMENT_CITY_SITE and an overlay is queued  *)
(* for the tile, the output has exactly one Improvement tag, the overlay's    *)
(* token, at the position of the source tag; with no overlay queued the       *)
(* output has no Improvement tag.                                             *)
C23_LegacyCitySiteRemoval ==
    (Overlaid /\ RemovedSite) =>
        /\ ~HasTag(out, "CitySite")
        /\ ~HasTag(out, "ElementName")
        /\ \A k \in DOMAIN src : src[k] = LegacyImprovement =>
               IF OverlayQueued
               THEN /\ CountTag(out, "Improvement") = 1
                    /\ OverlayHere(ValueOf(out, "Improvement")[1])
                    /\ IndexOf(out, "Improvement") = LinesBefore(k) + 1
               ELSE ~HasTag(out, "Improvement")

C23_Witness ==
    /\ Did("extract_map")
    /\ RemovedSite
    /\ OverlayQueued
    /\ src = << Field("CitySite", Some("ACTIVE")), LegacyImprovement >>
    /\ out[1] = Valued("Improvement", "IMPROVEMENT_FARM")

-----------------------------------------------------------------------------
(* A city of the city_map stands on the tile, whoever owns it *)
CityTile == \E i \in DOMAIN cities : cities[i].tile_id = tile_id

-----------------------------------------------------------------------------
(* Vocabulary of the unit properties *)

(* The placements on this tile, in STARTING_UNITS order (positions in units) *)
PlacedHere ==
    SelectSeq([i \in DOMAIN units |-> i],
              LAMBDA i : units[i][1] = TileX /\ units[i][2] = TileY)

UnitBlocks(lines) == SelectSeq(lines, LAMBDA l : l.tag = "Unit")

Attr(line, name) ==
    line.attrs[CHOOSE j \in DOMAIN line.attrs : line.attrs[j][1] = name][2]

(* base_seed + n in decimal, for n < 900 *)
SeedOf(n) == "58100000000000" \o ToString(100 + n)

(* C25: unit embedding.  The units are numbered 0, 1, 2, ... in placement   *)
(* order.  A composed tile embeds one Unit block for each placement on its  *)
(* (column, row), in placement order, and the block of unit n carries       *)
(* ID = n, the placement's type and Seed = 58100000000000100 + n.           *)
C25_UnitEmbedding ==
    Did("generate_scenario") =>
        /\ Len(UnitBlocks(out)) = Len(PlacedHere)
        /\ \A k \in DOMAIN PlacedHere :
               LET n == PlacedHere[k] - 1
                   u == UnitBlocks(out)[k]
               IN  /\ Attr(u, "ID") = ToString(n)
                   /\ Attr(u, "Type") = units[PlacedHere[k]][3]
                   /\ Attr(u, "Seed") = SeedOf(n)

C25_Witness ==
    /\ Did("generate_scenario")
    /\ PlacedHere = <<2, 3>>
    /\ Len(UnitBlocks(out)) = 2
    /\ Attr(UnitBlocks(out)[1], "ID") = "1"
    /\ Attr(UnitBlocks(out)[2], "Seed") = "58100000000000102"

-----------------------------------------------------------------------------
OwnershipTags ==
    {"CityTerritory", "Revealed", "RevealedCity", "RevealedCityTerritory", "RevealedTerrain"}

(* The city IDs the tile's territory tags name *)
NamedCityIds ==
    {ValueOf(out, "CityTerritory")[1] : k \in {1} \cap {CountTag(out, "CityTerritory")}}
    \cup {AttrOf(out, "RevealedCityTerritory")
              : k \in {1} \cap {CountTag(out, "RevealedCityTerritory")}}

(* C26: who can never claim or be claimed.  No composed tile carries a      *)
(* CityTerritory or RevealedCityTerritory tag naming a tribe-owned city     *)
(* (player = -1), and a boundary tile carries none of CityTerritory,        *)
(* Revealed, RevealedCity, RevealedCityTerritory and RevealedTerrain, even  *)
(* when it is within a city's radius, listed in a city's extra_territory or *)
(* hosts a unit.                                                            *)
C26_TribesAndBoundaryNeverClaim ==
    Composed =>
        /\ CountTag(out, "CityTerritory") <= 1
        /\ CountTag(out, "RevealedCityTerritory") <= 1
        /\ \A i \in DOMAIN cities :
               cities[i].player < 0 => ToString(cities[i].city_id) \notin NamedCityIds
        /\ boundary => \A t \in OwnershipTags : ~HasTag(out, t)

(* A boundary tile that is an extra tile of a player city *)
C26_Witness ==
    /\ Did("generate_scenario")
    /\ boundary
    /\ \E i \in DOMAIN cities : cities[i].player >= 0 /\ ListedExtra(cities[i])
    /\ ~HasTag(out, "CityTerritory")

-----------------------------------------------------------------------------

-----------------------------------------------------------------------------
(* Vocabulary of the row insertion: the grid as parsed, the tiles returned *)

Parsed == parse_terrain(doc).tiles

DenseGrid ==
    /\ Len(Parsed) = width * height
    /\ {Parsed[i].tile_id : i \in DOMAIN Parsed} = 0..(width * height - 1)

Inserted == InInsertRows /\ pc \in {"built", "done"}

FieldsAt(ts, id) == ts[CHOOSE i \in DOMAIN ts : ts[i].tile_id = id].fields

(* The field a new tile copies from its template tile, or the default *)
CopiedOrDefault(x, tag, default) ==
    LET template == FieldsAt(Parsed, args.after * width + x)
    IN  IF args.after >= 0 /\ HasTag(template, tag)
        THEN template[IndexOf(template, tag)]
        ELSE Field(tag, Some(default))

(* C27: row insertion re-index.  For a dense width x height grid,           *)
(* -1 <= after < height and count >= 1, insert_rows returns the IDs         *)
(* 0 .. width*(height+count)-1 in ascending order; a tile (x, y) with       *)
(* y <= after keeps its field list at its ID, a tile with y > after has its *)
(* field list at ID (y+count)*width + x, and every tile of the new rows     *)
(* after+1 .. after+count has exactly the fields Terrain and Height, copied *)
(* from tile (x, after) (TERRAIN_LUSH and HEIGHT_FLAT when after = -1).     *)
C27_RowInsertionReindex ==
    (Inserted /\ DenseGrid) =>
        /\ [i \in DOMAIN tiles |-> tiles[i].tile_id]
               = [i \in 1..(width * (height + args.count)) |-> i - 1]
        /\ \A y \in 0..(height - 1), x \in 0..(width - 1) :
               FieldsAt(tiles, NewRow(y) * width + x) = FieldsAt(Parsed, y * width + x)
        /\ \A y \in (args.after + 1)..(args.after + args.count), x \in 0..(width - 1) :
               FieldsAt(tiles, y * width + x)
                   = << CopiedOrDefault(x, "Terrain", "TERRAIN_LUSH"),
                        CopiedOrDefault(x, "Height", "HEIGHT_FLAT") >>

-----------------------------------------------------------------------------
(* Vocabulary of the editor import: the base file read, the editor map and *)
(* the file written, each a sequence of tile blocks [id, entries]          *)

Imported == Did("import_editor_terrain.main") /\ file # <<>>

BlockOf(blocks, id) == blocks[CHOOSE i \in DOMAIN blocks : blocks[i].id = id]

(* The child tags named t of a tile block: empty when the tag is absent *)
TagsNamed(blk, t) == {blk.entries[j] : j \in {j \in DOMAIN blk.entries : blk.entries[j].name = t}}

TagNames(blk) == {blk.entries[j].name : j \in DOMAIN blk.entries}

PolicyFields == {"Height", "Terrain", "RiverW", "RiverSW", "RiverSE"}

(* C28: the editor import changes only what its policy allows.  In the file *)
(* written, a non-boundary tile differs from the tile read only in Height   *)
(* (the editor's), Terrain (TERRAIN_TUNDRA, the editor's) and the river     *)
(* fields (as in the editor map); every other field of every tile, flags    *)
(* such as Boundary included, and every field of every boundary tile has    *)
(* the presence and the value it had in the file read.                      *)
C28_ImportChangesOnlyWhatPolicyAllows ==
    Imported =>
        \A i \in DOMAIN doc.blocks :
            LET read == doc.blocks[i]
                written == BlockOf(file[1], read.id)
                editor == BlockOf(AsBlocks(text.chunks), read.id)
            IN  \A t \in TagNames(read) \cup TagNames(written) :
                    \/ TagsNamed(written, t) = TagsNamed(read, t)
                    \/ /\ ~is_boundary(read.id)
                       /\ t \in PolicyFields
                       /\ TagsNamed(written, t) = TagsNamed(editor, t)
                       /\ t = "Terrain" => TagsNamed(editor, t)
                                               = {Element("Terrain", "TERRAIN_TUNDRA")}

-----------------------------------------------------------------------------
(* C29: coherence of the ownership and visibility tags of a composed tile.  *)
(* RevealedCityTerritory comes only with Revealed and with a CityTerritory  *)
(* tag of the same city ID; RevealedCity only with Revealed and             *)
(* OrigUrbanOwner; RevealedTerrain only with Revealed; and the value of a   *)
(* CityTerritory tag is the city_id of a player-owned city of the roster.   *)
C29_OwnershipAndVisibilityCoherent ==
    Composed =>
        /\ HasTag(out, "RevealedCityTerritory") =>
               /\ HasTag(out, "Revealed")
               /\ CountTag(out, "CityTerritory") = 1
               /\ Some(AttrOf(out, "RevealedCityTerritory")) = ValueOf(out, "CityTerritory")
        /\ HasTag(out, "RevealedCity") =>
               HasTag(out, "Revealed") /\ HasTag(out, "OrigUrbanOwner")
        /\ HasTag(out, "RevealedTerrain") => HasTag(out, "Revealed")
        /\ HasTag(out, "CityTerritory") =>
               \E i \in DOMAIN cities :
                   /\ cities[i].player >= 0
                   /\ ValueOf(out, "CityTerritory") = Some(ToString(cities[i].city_id))

C29_Witness ==
    /\ Did("generate_scenario")
    /\ HasTag(out, "RevealedCityTerritory")
    /\ HasTag(out, "RevealedCity")
    /\ HasTag(out, "RevealedTerrain")
    /\ AttrOf(out, "RevealedCityTerritory") = "1"

-----------------------------------------------------------------------------
(* Vocabulary of the unit bookkeeping of a generated scenario *)

(* The tiles of the document, by position, that embed unit number n *)
TilesEmbedding(n) ==
    {<<i, k>> \in UNION {{i} \X DOMAIN UnitBlocks(emitted[i].lines) : i \in DOMAIN emitted} :
        Attr(UnitBlocks(emitted[i].lines)[k], "ID") = ToString(n)}

EmbeddedUnits == SumOf([i \in DOMAIN emitted |-> Len(UnitBlocks(emitted[i].lines))], 1)

(* C30: unit bookkeeping across the document.  In a generated scenario each *)
(* entry of STARTING_UNITS is embedded in exactly one tile, the number of   *)
(* embedded Unit blocks is the NextUnitID of the preamble, so every         *)
(* embedded unit ID is below NextUnitID, and every tile that hosts a unit   *)
(* on a non-boundary coordinate is marked Revealed.                         *)
C30_UnitBookkeeping ==
    Did("generate_scenario.main") =>
        /\ \A n \in 0..(Len(STARTING_UNITS) - 1) : Cardinality(TilesEmbedding(n)) = 1
        /\ EmbeddedUnits = generate_preamble(cities).NextUnitID
        /\ \A i \in DOMAIN emitted :
               UnitBlocks(emitted[i].lines) # <<>> =>
                   (GenIsBoundary(emitted[i].id, width, height)
                    \/ HasTag(emitted[i].lines, "Revealed"))

====
